---- MODULE Spec2Model ----
(***************************************************************************)
(* A model of the hipc crate: the bitfield primitives and packed           *)
(* descriptors of packed.rs, the special header builder of header.rs and   *)
(* the typestate command builder of command.rs.                            *)
(*                                                                         *)
(* An unsigned machine integer (u8, u16, u32, u64, usize) is the set of    *)
(* the positions of its 1 bits: 5 is {0, 2}, a u32 with only its top bit   *)
(* set is {31}.  The operations that depend on the width of the type take  *)
(* it as their first argument w.  A byte array is a sequence of 0..255     *)
(* (element i+1 is the byte at offset i).  A const fn that may panic       *)
(* returns either Ok(value) or Panic(message).                             *)
(***************************************************************************)
EXTENDS Integers, Sequences, FiniteSets, TLC

\* ------------------------------------------------------------------------
\* Machine integers
\* ------------------------------------------------------------------------

\* the widths of u8, u16, u32 and u64/usize
U8 == 8
U16 == 16
U32 == 32
U64 == 64

\* the machine integer of value n (n < 2^31: a count, a size, a small literal)
ToBits(n) == {i \in 0..30 : (n \div (2 ^ i)) % 2 = 1}

RECURSIVE ToNat(_)
\* the value of a machine integer that is less than 2^31
ToNat(v) == IF v = {} THEN 0 ELSE LET i == CHOOSE x \in v : TRUE IN (2 ^ i) + ToNat(v \ {i})

\* `x as uN` to a type of w bits: truncation (zero extension changes nothing)
As(v, w) == {i \in v : i < w}

\* T::default() and T::from(1u8)
Zero == {}
One == {0}

BitAnd(a, b) == a \cap b
BitOr(a, b) == a \cup b
Not(w, a) == (0..(w - 1)) \ a
Shl(w, a, n) == {i + n : i \in {j \in a : j + n < w}}
Shr(a, n) == {i - n : i \in {j \in a : j >= n}}

\* uN::to_be_bytes: the bytes of to_le_bytes from the last to the first
to_be_bytes(w, v) ==
    SubSeq([j \in 1..(w \div 8) |-> ToNat(Shr(BitAnd(v, (w - 8 * j)..(w - 8 * j + 7)), w - 8 * j))], 1, w \div 8)

\* uN::to_le_bytes of a w-bit integer: byte j holds bits [8j, 8j+8)
to_le_bytes(w, v) ==
    SubSeq([j \in 1..(w \div 8) |-> ToNat(Shr(BitAnd(v, (8 * (j - 1))..(8 * j - 1)), 8 * (j - 1)))], 1, w \div 8)

\* the machine integer with the given little-endian bytes (for literals >= 2^31)
FromLeBytes(bytes) ==
    {i \in 0..(8 * Len(bytes) - 1) : (bytes[(i \div 8) + 1] \div (2 ^ (i % 8))) % 2 = 1}

\* ------------------------------------------------------------------------
\* packed.rs: bitfield primitives, over a type T of w bits
\* ------------------------------------------------------------------------

RECURSIVE bitmaskLoop(_, _, _, _)
bitmaskLoop(w, mask, current, msb) ==
    IF current < msb
    THEN bitmaskLoop(w, BitOr(mask, Shl(w, One, current)), current + 1, msb)
    ELSE mask

bitmask(w, lsb, msb) == bitmaskLoop(w, Zero, lsb, msb)

extract(w, value, lsb, msb) == Shr(BitAnd(value, bitmask(w, lsb, msb)), lsb)

\* set that does not limit the source to len bits
set_unmasked(w, src, dst, src_lsb, dst_lsb, len) ==
    LET value == Shr(src, src_lsb)
        new_value == BitAnd(dst, Not(w, bitmask(w, dst_lsb, dst_lsb + len)))
    IN  BitOr(new_value, Shl(w, value, dst_lsb))

set(w, src, dst, src_lsb, dst_lsb, len) ==
    LET value == extract(w, src, src_lsb, src_lsb + len)
        new_value == BitAnd(dst, Not(w, bitmask(w, dst_lsb, dst_lsb + len)))
    IN  BitOr(new_value, Shl(w, value, dst_lsb))

\* ------------------------------------------------------------------------
\* packed.rs: packed descriptors (a descriptor is its sequence of u32 words)
\* ------------------------------------------------------------------------

StaticDescriptorNew(index, size, address) ==
    LET first1 == set(U32, As(index, U32), Zero, 0, 0, 6)
        first2 == As(set(U64, address, first1, 36, 6, 6), U32)
        first3 == As(set(U64, address, first2, 32, 12, 4), U32)
        first4 == set(U32, As(size, U32), first3, 0, 16, 16)
        second == As(set(U64, address, Zero, 0, 0, 32), U32)
    IN  <<first4, second>>

BufferDescriptorNew(address, size, mode) ==
    LET size_low == As(extract(U64, size, 0, 32), U32)
        address_low == As(extract(U64, address, 0, 32), U32)
        inner1 == set(U32, mode, Zero, 0, 0, 2)
        inner2 == As(set(U64, address, inner1, 32, 28, 4), U32)
        inner3 == As(set(U64, size, inner2, 32, 24, 4), U32)
        inner4 == As(set(U64, address, inner3, 36, 2, 22), U32)
    IN  <<size_low, address_low, inner4>>

ReceiveListEntryNew(address, size) ==
    LET first == As(extract(U64, address, 0, 32), U32)
        second1 == As(set(U64, address, Zero, 32, 0, 16), U32)
        second2 == set(U32, As(size, U32), second1, 0, 16, 16)
    IN  <<first, second2>>

SpecialHeaderNew(send_pid, num_copy_handles, num_move_handles) ==
    LET inner1 == set(U32, ToBits(IF send_pid THEN 1 ELSE 0), Zero, 0, 0, 1)
        inner2 == set(U32, As(num_copy_handles, U32), inner1, 0, 1, 4)
        inner3 == set(U32, As(num_move_handles, U32), inner2, 0, 5, 4)
    IN  <<inner3>>

\* Header::new with the positions of the send and recv buffer counts
\* exchanged
HeaderNew_bufs_exchanged(ty, num_statics, num_send_bufs, num_recv_bufs, num_exch_bufs, raw_data_len, recv_static_mode, recv_list_offset, has_special_header) ==
    LET first1 == set(U32, ty, Zero, 0, 0, 16)
        first2 == set(U32, As(num_statics, U32), first1, 0, 16, 4)
        first3 == set(U32, As(num_send_bufs, U32), first2, 0, 24, 4)
        first4 == set(U32, As(num_recv_bufs, U32), first3, 0, 20, 4)
        first5 == set(U32, As(num_exch_bufs, U32), first4, 0, 28, 4)
        second1 == set(U32, As(raw_data_len, U32), Zero, 0, 0, 10)
        second2 == set(U32, recv_static_mode, second1, 0, 10, 4)
        second3 == set(U32, As(recv_list_offset, U32), second2, 0, 20, 11)
        second4 == set(U32, ToBits(IF has_special_header THEN 1 ELSE 0), second3, 0, 31, 1)
    IN  <<first5, second4>>

\* Header::new with the receive static mode one bit higher, at [11..15]
HeaderNew_mode_shifted(ty, num_statics, num_send_bufs, num_recv_bufs, num_exch_bufs, raw_data_len, recv_static_mode, recv_list_offset, has_special_header) ==
    LET first1 == set(U32, ty, Zero, 0, 0, 16)
        first2 == set(U32, As(num_statics, U32), first1, 0, 16, 4)
        first3 == set(U32, As(num_send_bufs, U32), first2, 0, 20, 4)
        first4 == set(U32, As(num_recv_bufs, U32), first3, 0, 24, 4)
        first5 == set(U32, As(num_exch_bufs, U32), first4, 0, 28, 4)
        second1 == set(U32, As(raw_data_len, U32), Zero, 0, 0, 10)
        second2 == set(U32, recv_static_mode, second1, 0, 11, 4)
        second3 == set(U32, As(recv_list_offset, U32), second2, 0, 20, 11)
        second4 == set(U32, ToBits(IF has_special_header THEN 1 ELSE 0), second3, 0, 31, 1)
    IN  <<first5, second4>>

HeaderNew(ty, num_statics, num_send_bufs, num_recv_bufs, num_exch_bufs, raw_data_len, recv_static_mode, recv_list_offset, has_special_header) ==
    LET first1 == set(U32, ty, Zero, 0, 0, 16)
        first2 == set(U32, As(num_statics, U32), first1, 0, 16, 4)
        first3 == set(U32, As(num_send_bufs, U32), first2, 0, 20, 4)
        first4 == set(U32, As(num_recv_bufs, U32), first3, 0, 24, 4)
        first5 == set(U32, As(num_exch_bufs, U32), first4, 0, 28, 4)
        second1 == set(U32, As(raw_data_len, U32), Zero, 0, 0, 10)
        second2 == set(U32, recv_static_mode, second1, 0, 10, 4)
        second3 == set(U32, As(recv_list_offset, U32), second2, 0, 20, 11)
        second4 == set(U32, ToBits(IF has_special_header THEN 1 ELSE 0), second3, 0, 31, 1)
    IN  <<first5, second4>>

\* Header::receive_static_mode
receive_static_mode(header) == ToNat(As(extract(U32, header[2], 10, 14), U8))

\* The accessors of the packed descriptors.  `x as usize` and `x as u64` of a
\* u32 are zero extensions, which leave the set of 1 bits as it is.
StaticDescriptor_index(self) == extract(U64, self[1], 0, 6)

StaticDescriptor_size(self) == extract(U64, self[1], 16, 32)

\* StaticDescriptor::address that reads bits [6..12] of word 0 as the
\* address bits from 32 and bits [12..16] as those from 38
StaticDescriptor_address_pieces_exchanged(self) ==
    LET addr1 == set(U64, self[2], Zero, 0, 0, 32)
        addr2 == set(U64, self[1], addr1, 12, 38, 4)
    IN  set(U64, self[1], addr2, 6, 32, 6)

StaticDescriptor_address(self) ==
    LET addr1 == set(U64, self[2], Zero, 0, 0, 32)
        addr2 == set(U64, self[1], addr1, 12, 32, 4)
    IN  set(U64, self[1], addr2, 6, 36, 6)

BufferDescriptor_size(self) ==
    LET size1 == set(U64, self[1], Zero, 0, 0, 32)
    IN  set(U64, self[3], size1, 24, 32, 4)

BufferDescriptor_address(self) ==
    LET address1 == set(U64, self[2], Zero, 0, 0, 32)
        address2 == set(U64, self[3], address1, 28, 32, 4)
    IN  set(U64, self[3], address2, 2, 36, 22)

BufferDescriptor_mode(self) == As(extract(U32, self[3], 0, 2), U8)

ReceiveListEntry_size(self) == extract(U32, self[2], 16, 32)

ReceiveListEntry_address(self) ==
    LET address == set(U64, self[1], Zero, 0, 0, 32)
    IN  set(U64, self[2], address, 0, 32, 16)

SpecialHeader_send_pid(self) == extract(U32, self[1], 0, 1) /= Zero

SpecialHeader_num_copy_handles(self) == extract(U32, self[1], 1, 5)

SpecialHeader_num_move_handles(self) == extract(U32, self[1], 5, 9)

Header_ty(self) == As(extract(U32, self[1], 0, 16), U16)

Header_num_send_statics(self) == extract(U32, self[1], 16, 20)

Header_num_send_buffers(self) == extract(U32, self[1], 20, 24)

Header_num_receive_buffers(self) == extract(U32, self[1], 24, 28)

Header_num_exchange_buffers(self) == extract(U32, self[1], 28, 32)

Header_raw_data_len(self) == extract(U32, self[2], 0, 10)

Header_receive_list_offset(self) == extract(U32, self[2], 20, 31)

Header_has_special_header(self) == extract(U32, self[2], 31, 32) /= Zero

\* From<descriptor> for [u8; 4n]: each u32 word little-endian, in order
IntoBytes(words) ==
    LET le == SubSeq([j \in 1..Len(words) |-> to_le_bytes(U32, words[j])], 1, Len(words))
    IN  SubSeq([k \in 1..(4 * Len(words)) |-> le[((k - 1) \div 4) + 1][((k - 1) % 4) + 1]], 1, 4 * Len(words))

\* ------------------------------------------------------------------------
\* Panics: the outcome of a const fn that may panic
\* ------------------------------------------------------------------------

Ok(v) == [ok |-> TRUE, val |-> v]
Panic(m) == [ok |-> FALSE, msg |-> m]

\* ------------------------------------------------------------------------
\* command.rs: constants and helpers
\* ------------------------------------------------------------------------

MAX_SEND_STATICS == 15
MAX_SEND_BUFFERS == 15
MAX_RECV_BUFFERS == 15
MAX_EXCH_BUFFERS == 15
MAX_RECV_STATICS == 13
MAX_SPECIAL_HDRS == 1
MAX_POINTER_BUFS == 1
MAX_TLS_BUFFER_SIZE == 256

\* core::mem::size_of of the packed types and of u32
SizeOfHeader == 8
SizeOfStaticDescriptor == 8
SizeOfBufferDescriptor == 12
SizeOfReceiveListEntry == 8
SizeOfSpecialHeader == 4
SizeOfU32 == 4
SizeOfU64 == 8

\* panic_on_invalid_recv_list without its third check
panic_on_invalid_recv_list_two_checks(recv_statics, inline_buff_len, has_pointer_buffer) ==
    IF recv_statics /= 0 /\ inline_buff_len /= 0
    THEN Panic("Static receivers found with an inline buffer, this combination is illegal")
    ELSE IF recv_statics /= 0 /\ has_pointer_buffer
    THEN Panic("Static receivers found with a setting for a pointer buffer, this combination is illegal")
    ELSE Ok(TRUE)

panic_on_invalid_recv_list(recv_statics, inline_buff_len, has_pointer_buffer) ==
    IF recv_statics /= 0 /\ inline_buff_len /= 0
    THEN Panic("Static receivers found with an inline buffer, this combination is illegal")
    ELSE IF recv_statics /= 0 /\ has_pointer_buffer
    THEN Panic("Static receivers found with a setting for a pointer buffer, this combination is illegal")
    ELSE IF inline_buff_len /= 0 /\ has_pointer_buffer
    THEN Panic("Inline buffer found with a setting for a pointer buffer, this combination is illegal")
    ELSE Ok(TRUE)

\* consumed_space without `total += special_header_total`
consumed_space_no_special_header(send_statics, send_buffers, recv_buffers, exch_buffers, recv_statics, raw_len, inline_buff_len, special_header_total, has_pointer_buffer) ==
    LET check == panic_on_invalid_recv_list(recv_statics, inline_buff_len, has_pointer_buffer)
        total == SizeOfHeader
                 + SizeOfStaticDescriptor * send_statics
                 + SizeOfBufferDescriptor * send_buffers
                 + SizeOfBufferDescriptor * recv_buffers
                 + SizeOfBufferDescriptor * exch_buffers
                 + SizeOfU32 * raw_len
        tail == IF recv_statics > 0 THEN SizeOfReceiveListEntry * recv_statics
                ELSE IF inline_buff_len /= 0 THEN inline_buff_len
                ELSE IF has_pointer_buffer THEN SizeOfReceiveListEntry
                ELSE 0
    IN  IF check.ok THEN Ok(total + tail) ELSE check

consumed_space(send_statics, send_buffers, recv_buffers, exch_buffers, recv_statics, raw_len, inline_buff_len, special_header_total, has_pointer_buffer) ==
    LET check == panic_on_invalid_recv_list(recv_statics, inline_buff_len, has_pointer_buffer)
        total == SizeOfHeader
                 + SizeOfStaticDescriptor * send_statics
                 + SizeOfBufferDescriptor * send_buffers
                 + SizeOfBufferDescriptor * recv_buffers
                 + SizeOfBufferDescriptor * exch_buffers
                 + SizeOfU32 * raw_len
                 + special_header_total
        tail == IF recv_statics > 0 THEN SizeOfReceiveListEntry * recv_statics
                ELSE IF inline_buff_len /= 0 THEN inline_buff_len
                ELSE IF has_pointer_buffer THEN SizeOfReceiveListEntry
                ELSE 0
    IN  IF check.ok THEN Ok(total + tail) ELSE check

\* defined by command.rs and called from nowhere in the crate
consumed_space_for_tls(send_statics, send_buffers, recv_buffers, exch_buffers, recv_statics, raw_len, inline_buff_len, special_header_total, has_pointer_buffer) ==
    LET total == consumed_space(send_statics, send_buffers, recv_buffers, exch_buffers, recv_statics, raw_len, inline_buff_len, special_header_total, has_pointer_buffer)
    IN  IF ~total.ok THEN total
        ELSE IF total.val > MAX_TLS_BUFFER_SIZE
        THEN Panic("Size is greater than what the TLS supports!")
        ELSE total

\* safe_increment with `current > max` for `current >= max`
safe_increment_off_by_one(current, max, err_msg) ==
    IF current > max THEN Panic(err_msg) ELSE Ok(current + 1)

safe_increment(current, max, err_msg) ==
    IF current >= max THEN Panic(err_msg) ELSE Ok(current + 1)

\* push_array that copies current to new[index + 1]: next comes first
push_array_next_first(current, next, N2) ==
    SubSeq([index \in 1..N2 |-> IF index = 1 THEN next ELSE current[index - 1]], 1, N2)

\* push_array::<T, N, N2>(current, next): N2 comes from the type of the result
push_array(current, next, N2) ==
    SubSeq([index \in 1..N2 |-> IF index <= Len(current) THEN current[index] ELSE next], 1, N2)

\* get_recv_mode with the modes of the inline buffer and of the pointer
\* buffer exchanged
get_recv_mode_exchanged(recv_statics, inline_buff_len, has_pointer_buffer) ==
    LET check == panic_on_invalid_recv_list(recv_statics, inline_buff_len, has_pointer_buffer)
    IN  IF ~check.ok THEN check
        ELSE IF recv_statics /= 0
        THEN (IF (recv_statics % 256) + 2 > 255
              THEN Panic("attempt to add with overflow")
              ELSE Ok((recv_statics % 256) + 2))
        ELSE IF inline_buff_len /= 0 THEN Ok(2)
        ELSE IF has_pointer_buffer THEN Ok(1)
        ELSE Ok(0)

\* (recv_statics as u8) + 2 is u8 arithmetic
get_recv_mode(recv_statics, inline_buff_len, has_pointer_buffer) ==
    LET check == panic_on_invalid_recv_list(recv_statics, inline_buff_len, has_pointer_buffer)
    IN  IF ~check.ok THEN check
        ELSE IF recv_statics /= 0
        THEN (IF (recv_statics % 256) + 2 > 255
              THEN Panic("attempt to add with overflow")
              ELSE Ok((recv_statics % 256) + 2))
        ELSE IF inline_buff_len /= 0 THEN Ok(1)
        ELSE IF has_pointer_buffer THEN Ok(2)
        ELSE Ok(0)

\* byte_array_write whose test is start + N2 >= N
byte_array_write_to_the_end_rejected(base, input, start) ==
    IF start + Len(input) >= Len(base)
    THEN Panic("Input data will exceed base!")
    ELSE Ok(SubSeq(base, 1, start) \o input \o SubSeq(base, start + Len(input) + 1, Len(base)))

\* base with base[start + index] = input[index] for every index < N2
byte_array_write(base, input, start) ==
    IF start + Len(input) > Len(base)
    THEN Panic("Input data will exceed base!")
    ELSE Ok(SubSeq(base, 1, start) \o input \o SubSeq(base, start + Len(input) + 1, Len(base)))

\* [0u8; N]
ZeroBytes(N) == SubSeq([k \in 1..N |-> 0], 1, N)

\* the start of a build whose array is one byte longer than the total
StartBuild_one_more(N) == [ok |-> TRUE, raw |-> ZeroBytes(N + 1), write_index |-> 0, at |-> <<>>]

\* The cursor state of a build(): st is [ok, raw, write_index, at] or a
\* Panic; at lists the value of write_index at the start of each section
\* written so far.
StartBuild(N) == [ok |-> TRUE, raw |-> ZeroBytes(N), write_index |-> 0, at |-> <<>>]

\* One `while counter < N { raw = byte_array_write(raw, bytes, write_index);
\* write_index += bytes.len(); counter += 1 }` loop of a build(), over the
\* byte arrays of the N items: the iterations counter..N-1 in order, the
\* first half of them and then the second half (a raw data payload has
\* more iterations than a recursion of one level each can nest).
RECURSIVE WriteLoop(_, _, _, _)
WriteLoop(st, arrays, counter, N) ==
    IF ~st.ok \/ counter >= N THEN st
    ELSE IF N - counter = 1
    THEN LET w == byte_array_write(st.raw, arrays[counter + 1], st.write_index)
         IN  IF ~w.ok THEN w
             ELSE [st EXCEPT !.raw = w.val, !.write_index = @ + Len(arrays[counter + 1])]
    ELSE WriteLoop(WriteLoop(st, arrays, counter, counter + ((N - counter) \div 2)), arrays, counter + ((N - counter) \div 2), N)

\* the loops of a build() taken last to first
RECURSIVE WriteSectionsLastFirst(_, _, _)
WriteSectionsLastFirst(st, sections, k) ==
    IF ~st.ok \/ k > Len(sections) THEN st
    ELSE WriteSectionsLastFirst(WriteLoop([st EXCEPT !.at = Append(@, st.write_index)], sections[Len(sections) + 1 - k].arrays, 0, sections[Len(sections) + 1 - k].N), sections, k + 1)

\* The loops of a build() one after the other: sections[k] is [arrays, N]
RECURSIVE WriteSections(_, _, _)
WriteSections(st, sections, k) ==
    IF ~st.ok \/ k > Len(sections) THEN st
    ELSE WriteSections(WriteLoop([st EXCEPT !.at = Append(@, st.write_index)], sections[k].arrays, 0, sections[k].N), sections, k + 1)

\* ------------------------------------------------------------------------
\* header.rs: the special header builder
\* A SpecialHeaderBuilder<PIDS, CP, MV, TOTAL> is the record of its const
\* generics and its three arrays.
\* ------------------------------------------------------------------------

MAX_PIDS == 1
MAX_COPY == 15
MAX_MOVE == 15

\* consumed_space with a process id counted as one word
header_consumed_space_pid_word(pids, copy, move_) ==
    pids * SizeOfU32 + copy * SizeOfU32 + move_ * SizeOfU32 + SizeOfSpecialHeader

header_consumed_space(pids, copy, move_) ==
    pids * SizeOfU64 + copy * SizeOfU32 + move_ * SizeOfU32 + SizeOfSpecialHeader

header_new_builder ==
    [PIDS |-> 0, CP |-> 0, MV |-> 0, TOTAL |-> 4,
     process_ids |-> <<>>, copy_handles |-> <<>>, move_handles |-> <<>>]

with_program_id(self, process_id) ==
    LET n == safe_increment(self.PIDS, MAX_PIDS, "Too many process ids!")
    IN  IF ~n.ok THEN n
        ELSE Ok([self EXCEPT !.PIDS = n.val,
                             !.TOTAL = header_consumed_space(n.val, self.CP, self.MV),
                             !.process_ids = push_array(self.process_ids, process_id, n.val)])

\* with_copy_handle with one ceiling for the handles of both lists
with_copy_handle_joint_ceiling(self, handle) ==
    LET cp == safe_increment(self.CP + self.MV, MAX_COPY, "Too many copy handles!")
    IN  IF ~cp.ok THEN cp
        ELSE Ok([self EXCEPT !.CP = self.CP + 1,
                             !.TOTAL = header_consumed_space(self.PIDS, self.CP + 1, self.MV),
                             !.copy_handles = push_array(self.copy_handles, handle, self.CP + 1)])

with_copy_handle(self, handle) ==
    LET n == safe_increment(self.CP, MAX_COPY, "Too many copy handles!")
    IN  IF ~n.ok THEN n
        ELSE Ok([self EXCEPT !.CP = n.val,
                             !.TOTAL = header_consumed_space(self.PIDS, n.val, self.MV),
                             !.copy_handles = push_array(self.copy_handles, handle, n.val)])

with_move_handle(self, handle) ==
    LET n == safe_increment(self.MV, MAX_MOVE, "Too many move handles!")
    IN  IF ~n.ok THEN n
        ELSE Ok([self EXCEPT !.MV = n.val,
                             !.TOTAL = header_consumed_space(self.PIDS, self.CP, n.val),
                             !.move_handles = push_array(self.move_handles, handle, n.val)])

\* SpecialHeaderBuilder::build with the move handle loop before the copy
\* handle loop
header_build_loops_move_first(self) ==
    WriteSections(StartBuild(self.TOTAL),
        <<[arrays |-> <<IntoBytes(SpecialHeaderNew(self.PIDS /= 0, ToBits(self.CP), ToBits(self.MV)))>>, N |-> 1],
          [arrays |-> SubSeq([k \in 1..Len(self.process_ids) |-> to_le_bytes(U64, self.process_ids[k])], 1, Len(self.process_ids)), N |-> self.PIDS],
          [arrays |-> SubSeq([k \in 1..Len(self.move_handles) |-> to_le_bytes(U32, self.move_handles[k])], 1, Len(self.move_handles)), N |-> self.MV],
          [arrays |-> SubSeq([k \in 1..Len(self.copy_handles) |-> to_le_bytes(U32, self.copy_handles[k])], 1, Len(self.copy_handles)), N |-> self.CP]>>, 1)

\* SpecialHeaderBuilder::build up to `out`: the cursor state after its last
\* loop, or a Panic
header_build_loops(self) ==
    WriteSections(StartBuild(self.TOTAL),
        <<[arrays |-> <<IntoBytes(SpecialHeaderNew(self.PIDS /= 0, ToBits(self.CP), ToBits(self.MV)))>>, N |-> 1],
          [arrays |-> SubSeq([k \in 1..Len(self.process_ids) |-> to_le_bytes(U64, self.process_ids[k])], 1, Len(self.process_ids)), N |-> self.PIDS],
          [arrays |-> SubSeq([k \in 1..Len(self.copy_handles) |-> to_le_bytes(U32, self.copy_handles[k])], 1, Len(self.copy_handles)), N |-> self.CP],
          [arrays |-> SubSeq([k \in 1..Len(self.move_handles) |-> to_le_bytes(U32, self.move_handles[k])], 1, Len(self.move_handles)), N |-> self.MV]>>, 1)

\* SpecialHeaderBuilder::build: Ok(out) or a Panic
header_build(self) ==
    LET st == header_build_loops(self)
    IN  IF st.ok THEN Ok(st.raw) ELSE st

\* ------------------------------------------------------------------------
\* command.rs: the command builder
\* A HipcCommandBuilder<SS, ..., TOTAL, Data, InlineBuffer> is the record of
\* its const generics (the upper-case fields) and of its fields.
\* ------------------------------------------------------------------------

\* lib.rs: #[repr(u16)] enum CommandType
CommandType ==
    [Invalid |-> 0, LegacyRequest |-> 1, Close |-> 2, LegacyControl |-> 3,
     Request |-> 4, Control |-> 5, RequestWithContext |-> 6, ControlWithContext |-> 7]

\* make_ty!() whose total counts the header twice
make_ty_empty_header_twice ==
    [SS |-> 0, SB |-> 0, RB |-> 0, EB |-> 0, RS |-> 0, SH |-> 0, PB |-> 0,
     SH_PIDS |-> 0, SH_COPY |-> 0, SH_MOVE |-> 0, SH_TOTAL |-> 0,
     LEN |-> 0, INLINE_BUFFER_LEN |-> 0,
     TOTAL |-> 2 * consumed_space(0, 0, 0, 0, 0, 0, 0, 0, FALSE).val]

\* make_ty!(): the type of the empty builder
make_ty_empty ==
    [SS |-> 0, SB |-> 0, RB |-> 0, EB |-> 0, RS |-> 0, SH |-> 0, PB |-> 0,
     SH_PIDS |-> 0, SH_COPY |-> 0, SH_MOVE |-> 0, SH_TOTAL |-> 0,
     LEN |-> 0, INLINE_BUFFER_LEN |-> 0,
     TOTAL |-> consumed_space(0, 0, 0, 0, 0, 0, 0, 0, FALSE).val]

\* The type of the builder a with_* step returns: self's generics with the
\* named ones replaced and TOTAL recomputed by consumed_space.  x is the
\* outcome of the step's safe_increment, which the macro expands in place.
make_ty_send_static(self, x) ==
    LET total == IF x.ok
                 THEN consumed_space(x.val, self.SB, self.RB, self.EB, self.RS, self.LEN, self.INLINE_BUFFER_LEN, self.SH_TOTAL, self.PB /= 0)
                 ELSE x
    IN  IF ~total.ok THEN total ELSE Ok([self EXCEPT !.SS = x.val, !.TOTAL = total.val])

make_ty_send_buffer(self, x) ==
    LET total == IF x.ok
                 THEN consumed_space(self.SS, x.val, self.RB, self.EB, self.RS, self.LEN, self.INLINE_BUFFER_LEN, self.SH_TOTAL, self.PB /= 0)
                 ELSE x
    IN  IF ~total.ok THEN total ELSE Ok([self EXCEPT !.SB = x.val, !.TOTAL = total.val])

make_ty_recv_buffer(self, x) ==
    LET total == IF x.ok
                 THEN consumed_space(self.SS, self.SB, x.val, self.EB, self.RS, self.LEN, self.INLINE_BUFFER_LEN, self.SH_TOTAL, self.PB /= 0)
                 ELSE x
    IN  IF ~total.ok THEN total ELSE Ok([self EXCEPT !.RB = x.val, !.TOTAL = total.val])

make_ty_exch_buffer(self, x) ==
    LET total == IF x.ok
                 THEN consumed_space(self.SS, self.SB, self.RB, x.val, self.RS, self.LEN, self.INLINE_BUFFER_LEN, self.SH_TOTAL, self.PB /= 0)
                 ELSE x
    IN  IF ~total.ok THEN total ELSE Ok([self EXCEPT !.EB = x.val, !.TOTAL = total.val])

make_ty_recv_static(self, x) ==
    LET total == IF x.ok
                 THEN consumed_space(self.SS, self.SB, self.RB, self.EB, x.val, self.LEN, self.INLINE_BUFFER_LEN, self.SH_TOTAL, self.PB /= 0)
                 ELSE x
    IN  IF ~total.ok THEN total ELSE Ok([self EXCEPT !.RS = x.val, !.TOTAL = total.val])

\* make_ty!(special_header => ...) with $cp and $mv in each other's place
make_ty_special_header_counts_exchanged(self, x, pids, cp, mv, sh_total) ==
    LET total == consumed_space(self.SS, self.SB, self.RB, self.EB, self.RS, self.LEN, self.INLINE_BUFFER_LEN, sh_total, self.PB /= 0)
    IN  IF ~x.ok THEN x
        ELSE IF ~total.ok THEN total
        ELSE Ok([self EXCEPT !.SH = x.val, !.SH_PIDS = pids, !.SH_COPY = mv, !.SH_MOVE = cp,
                             !.SH_TOTAL = sh_total, !.TOTAL = total.val])

make_ty_special_header(self, x, pids, cp, mv, sh_total) ==
    LET total == consumed_space(self.SS, self.SB, self.RB, self.EB, self.RS, self.LEN, self.INLINE_BUFFER_LEN, sh_total, self.PB /= 0)
    IN  IF ~x.ok THEN x
        ELSE IF ~total.ok THEN total
        ELSE Ok([self EXCEPT !.SH = x.val, !.SH_PIDS = pids, !.SH_COPY = cp, !.SH_MOVE = mv,
                             !.SH_TOTAL = sh_total, !.TOTAL = total.val])

\* make_ty!(pointer_buffer => x) whose total is computed with PB, not x
make_ty_pointer_buffer_stale_total(self, x) ==
    LET total == IF x.ok
                 THEN consumed_space(self.SS, self.SB, self.RB, self.EB, self.RS, self.LEN, self.INLINE_BUFFER_LEN, self.SH_TOTAL, self.PB /= 0)
                 ELSE x
    IN  IF ~total.ok THEN total ELSE Ok([self EXCEPT !.PB = x.val, !.TOTAL = total.val])

make_ty_pointer_buffer(self, x) ==
    LET total == IF x.ok
                 THEN consumed_space(self.SS, self.SB, self.RB, self.EB, self.RS, self.LEN, self.INLINE_BUFFER_LEN, self.SH_TOTAL, x.val /= 0)
                 ELSE x
    IN  IF ~total.ok THEN total ELSE Ok([self EXCEPT !.PB = x.val, !.TOTAL = total.val])

make_ty_raw_data(self, new_len) ==
    LET total == consumed_space(self.SS, self.SB, self.RB, self.EB, self.RS, new_len, self.INLINE_BUFFER_LEN, self.SH_TOTAL, self.PB /= 0)
    IN  IF ~total.ok THEN total ELSE Ok([self EXCEPT !.LEN = new_len, !.TOTAL = total.val])

make_ty_inline_buffer(self, new_len) ==
    LET total == consumed_space(self.SS, self.SB, self.RB, self.EB, self.RS, self.LEN, new_len, self.SH_TOTAL, self.PB /= 0)
    IN  IF ~total.ok THEN total ELSE Ok([self EXCEPT !.INLINE_BUFFER_LEN = new_len, !.TOTAL = total.val])

\* HipcCommandBuilder::new
new(ty) ==
    make_ty_empty @@
    [ty |-> ty, send_statics |-> <<>>, send_buffers |-> <<>>, recv_buffers |-> <<>>,
     exch_buffers |-> <<>>, recv_statics |-> <<>>, special_hdrs |-> <<>>,
     pointer_bufs |-> <<>>, raw_data |-> <<>>, inline_buffer |-> <<>>]

new_builder(ty) == new(ty)

with_send_static(self, desc) ==
    LET t == make_ty_send_static(self, safe_increment(self.SS, MAX_SEND_STATICS, "Too many send statics!"))
    IN  IF ~t.ok THEN t
        ELSE Ok([t.val EXCEPT !.send_statics = push_array(self.send_statics, desc, t.val.SS)])

with_send_buffer(self, desc) ==
    LET t == make_ty_send_buffer(self, safe_increment(self.SB, MAX_SEND_BUFFERS, "Too many send buffers!"))
    IN  IF ~t.ok THEN t
        ELSE Ok([t.val EXCEPT !.send_buffers = push_array(self.send_buffers, desc, t.val.SB)])

\* with_recv_buffer that returns a builder without the payload
with_recv_buffer_payload_dropped(self, desc) ==
    LET t == make_ty_recv_buffer(self, safe_increment(self.RB, MAX_RECV_BUFFERS, "Too many recv buffers!"))
    IN  IF ~t.ok THEN t
        ELSE Ok([t.val EXCEPT !.recv_buffers = push_array(self.recv_buffers, desc, t.val.RB), !.raw_data = <<>>])

with_recv_buffer(self, desc) ==
    LET t == make_ty_recv_buffer(self, safe_increment(self.RB, MAX_RECV_BUFFERS, "Too many recv buffers!"))
    IN  IF ~t.ok THEN t
        ELSE Ok([t.val EXCEPT !.recv_buffers = push_array(self.recv_buffers, desc, t.val.RB)])

with_exch_buffer(self, desc) ==
    LET t == make_ty_exch_buffer(self, safe_increment(self.EB, MAX_EXCH_BUFFERS, "Too many exch buffers!"))
    IN  IF ~t.ok THEN t
        ELSE Ok([t.val EXCEPT !.exch_buffers = push_array(self.exch_buffers, desc, t.val.EB)])

with_recv_static(self, desc) ==
    LET t == make_ty_recv_static(self, safe_increment(self.RS, MAX_RECV_STATICS, "Too many recv statics!"))
    IN  IF ~t.ok THEN t
        ELSE Ok([t.val EXCEPT !.recv_statics = push_array(self.recv_statics, desc, t.val.RS)])

\* with_special_header that attaches no header without a process id or a
\* handle
with_special_header_unless_empty(self, header) ==
    LET t == make_ty_special_header(self, safe_increment(self.SH, MAX_SPECIAL_HDRS, "Too many special headers!"), header.PIDS, header.CP, header.MV, header.TOTAL)
    IN  IF ~t.ok THEN t
        ELSE IF header.PIDS + header.CP + header.MV = 0 THEN Ok(self)
        ELSE Ok([t.val EXCEPT !.special_hdrs = push_array(<<>>, header, t.val.SH)])

with_special_header(self, header) ==
    LET t == make_ty_special_header(self, safe_increment(self.SH, MAX_SPECIAL_HDRS, "Too many special headers!"), header.PIDS, header.CP, header.MV, header.TOTAL)
    IN  IF ~t.ok THEN t
        ELSE Ok([t.val EXCEPT !.special_hdrs = push_array(<<>>, header, t.val.SH)])

with_pointer_buffer(self, desc) ==
    LET t == make_ty_pointer_buffer(self, safe_increment(self.PB, MAX_POINTER_BUFS, "Too many pointer buffers!"))
    IN  IF ~t.ok THEN t
        ELSE Ok([t.val EXCEPT !.pointer_bufs = push_array(self.pointer_bufs, desc, t.val.PB)])

\* with_raw_data that appends the words to the payload the builder holds
with_raw_data_appending(self, data) ==
    LET t == make_ty_raw_data(self, self.LEN + Len(data))
    IN  IF ~t.ok THEN t ELSE Ok([t.val EXCEPT !.raw_data = self.raw_data \o data])

with_raw_data(self, data) ==
    LET t == make_ty_raw_data(self, Len(data))
    IN  IF ~t.ok THEN t ELSE Ok([t.val EXCEPT !.raw_data = data])

\* with_inline_buffer that keeps the length of a longer buffer it replaces
with_inline_buffer_length_kept(self, data) ==
    LET t == make_ty_inline_buffer(self, IF Len(data) < self.INLINE_BUFFER_LEN THEN self.INLINE_BUFFER_LEN ELSE Len(data))
    IN  IF ~t.ok THEN t ELSE Ok([t.val EXCEPT !.inline_buffer = data])

with_inline_buffer(self, data) ==
    LET t == make_ty_inline_buffer(self, Len(data))
    IN  IF ~t.ok THEN t ELSE Ok([t.val EXCEPT !.inline_buffer = data])

\* write_index = (write_index + 15) & !16, on usize
align_inline(write_index) ==
    ToNat(BitAnd(ToBits(write_index + 15), Not(U64, ToBits(16))))

\* the byte arrays of a descriptor array
AllIntoBytes(descs) == SubSeq([k \in 1..Len(descs) |-> IntoBytes(descs[k])], 1, Len(descs))

\* The inline buffer branch of build with the alignment of the cursor
\* outside the test of INLINE_BUFFER_LEN
build_inline_buffer_always_aligned(self, st) ==
    IF ~st.ok THEN st
    ELSE IF self.INLINE_BUFFER_LEN > 0
    THEN LET w == byte_array_write(st.raw, self.inline_buffer, align_inline(st.write_index))
         IN  IF ~w.ok THEN w
             ELSE [st EXCEPT !.at = Append(@, align_inline(st.write_index)),
                             !.write_index = align_inline(st.write_index) + Len(self.inline_buffer)]
    ELSE [st EXCEPT !.at = Append(@, align_inline(st.write_index)),
                    !.write_index = align_inline(st.write_index)]

\* The inline buffer branch of build: the cursor is aligned, the buffer is
\* written there by byte_array_write, whose returned array is dropped, and
\* the cursor moves past it.
build_inline_buffer(self, st) ==
    IF ~st.ok THEN st
    ELSE IF self.INLINE_BUFFER_LEN > 0
    THEN LET w == byte_array_write(st.raw, self.inline_buffer, align_inline(st.write_index))
         IN  IF ~w.ok THEN w
             ELSE [st EXCEPT !.at = Append(@, align_inline(st.write_index)),
                             !.write_index = align_inline(st.write_index) + Len(self.inline_buffer)]
    ELSE [st EXCEPT !.at = Append(@, st.write_index)]

\* the special_hdrs[counter].build() of the special header loop
build_special_hdrs(self) ==
    SubSeq([k \in 1..Len(self.special_hdrs) |-> header_build(self.special_hdrs[k])], 1, Len(self.special_hdrs))

\* HipcCommandBuilder::build.  Ok([raw, write_index, at]) or a Panic: raw is
\* the returned array, write_index the final cursor and at.s the cursor when
\* build reaches section s (for the inline buffer: after the alignment).
build(self) ==
    LET mode == get_recv_mode(self.RS, self.INLINE_BUFFER_LEN, self.PB /= 0)
        header == HeaderNew(ToBits(self.ty), ToBits(self.SS), ToBits(self.SB), ToBits(self.RB),
                            ToBits(self.EB), ToBits(self.LEN), ToBits(mode.val), ToBits(0), self.SH /= 0)
        hdrs == build_special_hdrs(self)
        st == WriteSections(
                  build_inline_buffer(self,
                      WriteSections(StartBuild(self.TOTAL),
                          <<[arrays |-> <<IntoBytes(header)>>, N |-> 1],
                            [arrays |-> SubSeq([k \in 1..Len(hdrs) |-> hdrs[k].val], 1, Len(hdrs)), N |-> self.SH],
                            [arrays |-> AllIntoBytes(self.send_statics), N |-> self.SS],
                            [arrays |-> AllIntoBytes(self.send_buffers), N |-> self.SB],
                            [arrays |-> AllIntoBytes(self.recv_buffers), N |-> self.RB],
                            [arrays |-> AllIntoBytes(self.exch_buffers), N |-> self.EB],
                            [arrays |-> SubSeq([k \in 1..Len(self.raw_data) |-> to_le_bytes(U32, self.raw_data[k])], 1, Len(self.raw_data)), N |-> self.LEN]>>, 1)),
                  <<[arrays |-> AllIntoBytes(self.pointer_bufs), N |-> self.PB],
                    [arrays |-> AllIntoBytes(self.recv_statics), N |-> self.RS]>>, 1)
    IN  IF ~mode.ok THEN mode
        ELSE IF \E k \in 1..Len(hdrs) : ~hdrs[k].ok THEN hdrs[CHOOSE k \in 1..Len(hdrs) : ~hdrs[k].ok]
        ELSE IF ~st.ok THEN st
        ELSE Ok([raw |-> st.raw, write_index |-> st.write_index,
                 at |-> [special_hdrs |-> st.at[2], send_statics |-> st.at[3],
                         send_buffers |-> st.at[4], recv_buffers |-> st.at[5],
                         exch_buffers |-> st.at[6], raw_data |-> st.at[7],
                         inline_buffer |-> st.at[8], pointer_bufs |-> st.at[9],
                         recv_statics |-> st.at[10]]])

\* ------------------------------------------------------------------------
\* The state machine: one builder value driven through composition steps
\* ------------------------------------------------------------------------

VARIABLES
    builder,    \* the builder value being composed
    phase,      \* "composing", "built" (build returned) or "panicked"
    output,     \* what build returned: [raw, write_index, at]
    panic       \* the panic that ended the run: [msg, at]

vars == <<builder, phase, output, panic>>

\* Bounds of the model.  A run fills at most one descriptor slot towards its
\* ceiling: the steps a builder holds outside its fullest descriptor slot
\* (see Extra) number at most MaxExtra.
MaxExtra == 2
\* the length of the longest inline buffer offered to with_inline_buffer
BigInlineLen == 249

\* The arguments offered to the steps
TyInputs == {CommandType.Request, CommandType.Control}

SendStaticInputs ==
    {StaticDescriptorNew(ToBits(1), ToBits(32), FromLeBytes(<<16, 50, 84, 118, 2, 0, 0, 0>>))}
SendBufferInputs ==
    {BufferDescriptorNew(FromLeBytes(<<188, 154, 120, 86, 52, 18, 0, 0>>), ToBits(64), ToBits(1))}
RecvBufferInputs ==
    {BufferDescriptorNew(FromLeBytes(<<0, 16, 0, 128, 7, 0, 0, 0>>), ToBits(128), ToBits(0))}
ExchBufferInputs ==
    {BufferDescriptorNew(FromLeBytes(<<0, 32, 0, 64, 0, 1, 0, 0>>), ToBits(4096), ToBits(3))}
RecvStaticInputs ==
    {ReceiveListEntryNew(FromLeBytes(<<0, 48, 17, 34, 51, 0, 0, 0>>), ToBits(16))}
PointerBufferInputs ==
    {ReceiveListEntryNew(FromLeBytes(<<239, 190, 173, 222, 0, 0, 0, 0>>), ToBits(256))}

PSEUDO_HANDLE_CURRENT_PROCESS == FromLeBytes(<<1, 128, 255, 255>>)

SpecialHeaderInputs ==
    {header_new_builder,
     with_copy_handle(header_new_builder, PSEUDO_HANDLE_CURRENT_PROCESS).val,
     with_move_handle(with_copy_handle(with_program_id(header_new_builder, ToBits(81)).val, PSEUDO_HANDLE_CURRENT_PROCESS).val, ToBits(4660)).val}

RawDataInputs ==
    {<<>>, <<ToBits(1)>>, <<ToBits(17), FromLeBytes(<<120, 86, 52, 18>>), FromLeBytes(<<255, 255, 255, 255>>)>>}

InlineBufferInputs ==
    {<<>>, <<170>>, SubSeq([k \in 1..16 |-> 170], 1, 16), SubSeq([k \in 1..BigInlineLen |-> 170], 1, BigInlineLen)}

Max(S) == CHOOSE x \in S : \A y \in S : y <= x

\* the steps b holds outside its fullest descriptor slot
Extra(b) ==
    (b.SS + b.SB + b.RB + b.EB + b.RS) - Max({b.SS, b.SB, b.RB, b.EB, b.RS})
    + b.SH + b.PB
    + (IF b.LEN > 0 THEN 1 ELSE 0) + (IF b.INLINE_BUFFER_LEN > 0 THEN 1 ELSE 0)

NoOutput ==
    [raw |-> <<>>, write_index |-> 0,
     at |-> [special_hdrs |-> 0, send_statics |-> 0, send_buffers |-> 0, recv_buffers |-> 0,
             exch_buffers |-> 0, raw_data |-> 0, inline_buffer |-> 0, pointer_bufs |-> 0,
             recv_statics |-> 0]]
NoPanic == [msg |-> "", at |-> ""]

Init ==
    /\ builder \in {new_builder(ty) : ty \in TyInputs}
    /\ phase = "composing"
    /\ output = NoOutput
    /\ panic = NoPanic

\* A composition step with outcome r: the new builder value, or the panic
\* that rejects the step (the builder the step was applied to stays as it was)
Step(r, op) ==
    IF r.ok
    THEN /\ Extra(r.val) <= MaxExtra
         /\ builder' = r.val
         /\ UNCHANGED <<phase, output, panic>>
    ELSE /\ phase' = "panicked"
         /\ panic' = [msg |-> r.msg, at |-> op]
         /\ UNCHANGED <<builder, output>>

WithSendStatic ==
    /\ phase = "composing"
    /\ \E desc \in SendStaticInputs : Step(with_send_static(builder, desc), "with_send_static")

WithSendBuffer ==
    /\ phase = "composing"
    /\ \E desc \in SendBufferInputs : Step(with_send_buffer(builder, desc), "with_send_buffer")

WithRecvBuffer ==
    /\ phase = "composing"
    /\ \E desc \in RecvBufferInputs : Step(with_recv_buffer(builder, desc), "with_recv_buffer")

WithExchBuffer ==
    /\ phase = "composing"
    /\ \E desc \in ExchBufferInputs : Step(with_exch_buffer(builder, desc), "with_exch_buffer")

WithRecvStatic ==
    /\ phase = "composing"
    /\ \E desc \in RecvStaticInputs : Step(with_recv_static(builder, desc), "with_recv_static")

WithSpecialHeader ==
    /\ phase = "composing"
    /\ \E header \in SpecialHeaderInputs : Step(with_special_header(builder, header), "with_special_header")

WithPointerBuffer ==
    /\ phase = "composing"
    /\ \E desc \in PointerBufferInputs : Step(with_pointer_buffer(builder, desc), "with_pointer_buffer")

WithRawData ==
    /\ phase = "composing"
    /\ \E data \in RawDataInputs : Step(with_raw_data(builder, data), "with_raw_data")

WithInlineBuffer ==
    /\ phase = "composing"
    /\ \E data \in InlineBufferInputs : Step(with_inline_buffer(builder, data), "with_inline_buffer")

Build ==
    /\ phase = "composing"
    /\ LET r == build(builder)
       IN  IF r.ok
           THEN /\ phase' = "built"
                /\ output' = r.val
                /\ UNCHANGED <<builder, panic>>
           ELSE /\ phase' = "panicked"
                /\ panic' = [msg |-> r.msg, at |-> "build"]
                /\ UNCHANGED <<builder, output>>

Next ==
    \/ WithSendStatic
    \/ WithSendBuffer
    \/ WithRecvBuffer
    \/ WithExchBuffer
    \/ WithRecvStatic
    \/ WithSpecialHeader
    \/ WithPointerBuffer
    \/ WithRawData
    \/ WithInlineBuffer
    \/ Build

Spec == Init /\ [][Next]_vars

\* ------------------------------------------------------------------------
\* The state machine of a special header: builder is a SpecialHeaderBuilder
\* driven through its steps, output is [raw, write_index] of its build()
\* ------------------------------------------------------------------------

\* Bounds of the special header runs.  One of the two handle lists may fill
\* to its ceiling: the shorter list holds at most MaxOtherHandles handles.
MaxOtherHandles == 1
\* the places in the two lists where a handle differs from the one before it
MaxHandleChanges == 1

ProcessIdInputs == {ToBits(81), FromLeBytes(<<239, 205, 171, 137, 103, 69, 35, 1>>)}
CopyHandleInputs == {PSEUDO_HANDLE_CURRENT_PROCESS, ToBits(4660)}
MoveHandleInputs == {ToBits(22136), FromLeBytes(<<13, 240, 173, 222>>)}

HandleChanges(handles) == Cardinality({i \in 2..Len(handles) : handles[i] /= handles[i - 1]})

HeaderInBounds(h) ==
    /\ (h.CP <= MaxOtherHandles \/ h.MV <= MaxOtherHandles)
    /\ HandleChanges(h.copy_handles) + HandleChanges(h.move_handles) <= MaxHandleChanges

HeaderInit ==
    /\ builder = header_new_builder
    /\ phase = "composing"
    /\ output = [raw |-> <<>>, write_index |-> 0]
    /\ panic = NoPanic

\* A step of the special header with outcome r: the new builder value, or
\* the panic that rejects the step
HeaderStep(r, op) ==
    IF r.ok
    THEN /\ HeaderInBounds(r.val)
         /\ builder' = r.val
         /\ UNCHANGED <<phase, output, panic>>
    ELSE /\ phase' = "panicked"
         /\ panic' = [msg |-> r.msg, at |-> op]
         /\ UNCHANGED <<builder, output>>

WithProgramId ==
    /\ phase = "composing"
    /\ \E process_id \in ProcessIdInputs : HeaderStep(with_program_id(builder, process_id), "with_program_id")

WithCopyHandle ==
    /\ phase = "composing"
    /\ \E handle \in CopyHandleInputs : HeaderStep(with_copy_handle(builder, handle), "with_copy_handle")

WithMoveHandle ==
    /\ phase = "composing"
    /\ \E handle \in MoveHandleInputs : HeaderStep(with_move_handle(builder, handle), "with_move_handle")

HeaderBuild ==
    /\ phase = "composing"
    /\ LET st == header_build_loops(builder)
       IN  IF st.ok
           THEN /\ phase' = "built"
                /\ output' = [raw |-> header_build(builder).val, write_index |-> st.write_index]
                /\ UNCHANGED <<builder, panic>>
           ELSE /\ phase' = "panicked"
                /\ panic' = [msg |-> st.msg, at |-> "build"]
                /\ UNCHANGED <<builder, output>>

HeaderNext ==
    \/ WithProgramId
    \/ WithCopyHandle
    \/ WithMoveHandle
    \/ HeaderBuild

HeaderSpec == HeaderInit /\ [][HeaderNext]_vars

\* ------------------------------------------------------------------------
\* The state machine of a command with few descriptors, of two values per
\* slot, and a payload of any length
\* ------------------------------------------------------------------------

\* the descriptors a run holds in its five descriptor slots together
MaxDescriptors == 2
\* the number of words of the long payload offered to with_raw_data
LongPayloadWords == 1024

SendStaticPairs ==
    SendStaticInputs \cup {StaticDescriptorNew(ToBits(2), ToBits(8), ToBits(4096))}
SendBufferPairs ==
    SendBufferInputs \cup {BufferDescriptorNew(ToBits(8192), ToBits(16), ToBits(2))}
RecvBufferPairs ==
    RecvBufferInputs \cup {BufferDescriptorNew(ToBits(12288), ToBits(24), ToBits(1))}
ExchBufferPairs ==
    ExchBufferInputs \cup {BufferDescriptorNew(ToBits(16384), ToBits(32), ToBits(0))}
RecvStaticPairs ==
    RecvStaticInputs \cup {ReceiveListEntryNew(ToBits(20480), ToBits(40))}

PayloadInputs ==
    {<<ToBits(7)>>, SubSeq([k \in 1..LongPayloadWords |-> ToBits(k)], 1, LongPayloadWords)}

OrderInit ==
    /\ builder = new_builder(CommandType.Request)
    /\ phase = "composing"
    /\ output = NoOutput
    /\ panic = NoPanic

\* A composition step with outcome r, in a run of few descriptors
OrderStep(r, op) ==
    IF r.ok
    THEN /\ r.val.SS + r.val.SB + r.val.RB + r.val.EB + r.val.RS <= MaxDescriptors
         /\ builder' = r.val
         /\ UNCHANGED <<phase, output, panic>>
    ELSE /\ phase' = "panicked"
         /\ panic' = [msg |-> r.msg, at |-> op]
         /\ UNCHANGED <<builder, output>>

PushSendStatic ==
    /\ phase = "composing"
    /\ \E desc \in SendStaticPairs : OrderStep(with_send_static(builder, desc), "with_send_static")

PushSendBuffer ==
    /\ phase = "composing"
    /\ \E desc \in SendBufferPairs : OrderStep(with_send_buffer(builder, desc), "with_send_buffer")

PushRecvBuffer ==
    /\ phase = "composing"
    /\ \E desc \in RecvBufferPairs : OrderStep(with_recv_buffer(builder, desc), "with_recv_buffer")

PushExchBuffer ==
    /\ phase = "composing"
    /\ \E desc \in ExchBufferPairs : OrderStep(with_exch_buffer(builder, desc), "with_exch_buffer")

PushRecvStatic ==
    /\ phase = "composing"
    /\ \E desc \in RecvStaticPairs : OrderStep(with_recv_static(builder, desc), "with_recv_static")

SetPayload ==
    /\ phase = "composing"
    /\ \E data \in PayloadInputs : OrderStep(with_raw_data(builder, data), "with_raw_data")

OrderNext ==
    \/ PushSendStatic
    \/ PushSendBuffer
    \/ PushRecvBuffer
    \/ PushExchBuffer
    \/ PushRecvStatic
    \/ SetPayload
    \/ Build

OrderSpec == OrderInit /\ [][OrderNext]_vars

\* ------------------------------------------------------------------------
\* The state machine of the packed descriptors: builder is the call, a kind
\* and its arguments; output is [words, fields], the words of the packed
\* value the constructor (or set) returned and what its accessors returned
\* ------------------------------------------------------------------------

\* u64 arguments: one that fits every address field, the largest of 42, 48
\* and 58 bits, one bit past each of them, and u64::MAX
AddressInputs ==
    {FromLeBytes(<<16, 50, 84, 118, 2, 0, 0, 0>>),
     0..41, 0..47, 0..57,
     {0, 5, 33, 37, 42}, {1, 31, 32, 47, 48}, {2, 35, 36, 57, 58},
     0..63}

\* usize arguments for a size: in the range of 16 bits and of 36 bits, and
\* past them
SizeInputs == {ToBits(32), 0..15, {3, 16}, 0..35, {4, 31, 32, 36}, 0..63}

\* usize arguments for a count or an index: in the range of 4, 6, 10 and 11
\* bits, and past them
CountInputs == {ToBits(9), ToBits(15), ToBits(16), {0, 1, 4, 32}}
IndexInputs == {ToBits(1), ToBits(63), ToBits(67), 0..63}
LenInputs == {ToBits(3), ToBits(1023), ToBits(1024), {0, 10, 11, 40}}

\* u8 arguments for a mode, u16 arguments for a command type
ModeInputs == {ToBits(1), ToBits(3), ToBits(15), ToBits(22), 0..7}
TypeInputs == {ToBits(CommandType.Request), 0..15}

\* the arguments of set::<u32> and set::<u64>
SetInputs ==
    {<<w, src, dst, src_lsb, dst_lsb, len>> :
        w \in {U32, U64}, src \in {0..31, {0, 2, 5, 7, 8, 13, 30}}, dst \in {{}, 0..31, {1, 2, 6, 9, 11, 28, 31}},
        src_lsb \in {0, 5}, dst_lsb \in {0, 6, 28}, len \in {1, 4, 16}}

PackedCalls ==
    {[kind |-> "StaticDescriptor", args |-> <<index, size, address>>] :
        index \in IndexInputs, size \in SizeInputs, address \in AddressInputs}
    \cup {[kind |-> "BufferDescriptor", args |-> <<address, size, mode>>] :
        address \in AddressInputs, size \in SizeInputs, mode \in ModeInputs}
    \cup {[kind |-> "ReceiveListEntry", args |-> <<address, size>>] :
        address \in AddressInputs, size \in SizeInputs}
    \cup {[kind |-> "SpecialHeader", args |-> <<send_pid, num_copy_handles, num_move_handles>>] :
        send_pid \in BOOLEAN, num_copy_handles \in CountInputs, num_move_handles \in CountInputs}
    \cup {[kind |-> "Header", args |-> <<ty, counts[1], counts[2], counts[3], counts[4], raw_data_len, mode, {}, has_special_header>>] :
        ty \in TypeInputs, counts \in {<<a, b, ToBits(9), ToBits(9)>> : a \in CountInputs, b \in CountInputs} \cup {<<ToBits(9), ToBits(9), a, b>> : a \in CountInputs, b \in CountInputs},
        raw_data_len \in LenInputs, mode \in ModeInputs, has_special_header \in BOOLEAN}
    \cup {[kind |-> "Header", args |-> <<ToBits(CommandType.Control), ToBits(16), ToBits(9), ToBits(1), ToBits(2), ToBits(3), ToBits(1), recv_list_offset, FALSE>>] :
        recv_list_offset \in LenInputs \cup {ToBits(2047), ToBits(2048)}}
    \cup {[kind |-> "set", args |-> a] : a \in {x \in SetInputs : x[4] + x[6] <= x[1] /\ x[5] + x[6] <= x[1]}}

PackedInit ==
    /\ builder \in PackedCalls
    /\ phase = "called"
    /\ output = [words |-> <<>>, fields |-> <<>>]
    /\ panic = NoPanic

\* the call returns the packed value
Packed(words) ==
    /\ phase = "called"
    /\ phase' = "packed"
    /\ output' = [output EXCEPT !.words = words]
    /\ UNCHANGED <<builder, panic>>

\* every accessor of the packed value is applied, in the order of the
\* arguments of new
Accessed(fields) ==
    /\ phase = "packed"
    /\ phase' = "accessed"
    /\ output' = [output EXCEPT !.fields = fields]
    /\ UNCHANGED <<builder, panic>>

NewStaticDescriptor ==
    /\ builder.kind = "StaticDescriptor"
    /\ Packed(StaticDescriptorNew(builder.args[1], builder.args[2], builder.args[3]))

NewBufferDescriptor ==
    /\ builder.kind = "BufferDescriptor"
    /\ Packed(BufferDescriptorNew(builder.args[1], builder.args[2], builder.args[3]))

NewReceiveListEntry ==
    /\ builder.kind = "ReceiveListEntry"
    /\ Packed(ReceiveListEntryNew(builder.args[1], builder.args[2]))

NewSpecialHeader ==
    /\ builder.kind = "SpecialHeader"
    /\ Packed(SpecialHeaderNew(builder.args[1], builder.args[2], builder.args[3]))

NewHeader ==
    /\ builder.kind = "Header"
    /\ Packed(HeaderNew(builder.args[1], builder.args[2], builder.args[3], builder.args[4], builder.args[5],
                               builder.args[6], builder.args[7], builder.args[8], builder.args[9]))

CallSet ==
    /\ builder.kind = "set"
    /\ Packed(<<set(builder.args[1], builder.args[2], builder.args[3], builder.args[4], builder.args[5], builder.args[6])>>)

AccessStaticDescriptor ==
    /\ builder.kind = "StaticDescriptor"
    /\ Accessed(<<StaticDescriptor_index(output.words), StaticDescriptor_size(output.words),
               StaticDescriptor_address(output.words)>>)

AccessBufferDescriptor ==
    /\ builder.kind = "BufferDescriptor"
    /\ Accessed(<<BufferDescriptor_address(output.words), BufferDescriptor_size(output.words),
               BufferDescriptor_mode(output.words)>>)

AccessReceiveListEntry ==
    /\ builder.kind = "ReceiveListEntry"
    /\ Accessed(<<ReceiveListEntry_address(output.words), ReceiveListEntry_size(output.words)>>)

AccessSpecialHeader ==
    /\ builder.kind = "SpecialHeader"
    /\ Accessed(<<SpecialHeader_send_pid(output.words), SpecialHeader_num_copy_handles(output.words),
               SpecialHeader_num_move_handles(output.words)>>)

AccessHeader ==
    /\ builder.kind = "Header"
    /\ Accessed(<<Header_ty(output.words), Header_num_send_statics(output.words),
               Header_num_send_buffers(output.words), Header_num_receive_buffers(output.words),
               Header_num_exchange_buffers(output.words), Header_raw_data_len(output.words),
               receive_static_mode(output.words), Header_receive_list_offset(output.words),
               Header_has_special_header(output.words)>>)

PackedNext ==
    \/ NewStaticDescriptor
    \/ NewBufferDescriptor
    \/ NewReceiveListEntry
    \/ NewSpecialHeader
    \/ NewHeader
    \/ CallSet
    \/ AccessStaticDescriptor
    \/ AccessBufferDescriptor
    \/ AccessReceiveListEntry
    \/ AccessSpecialHeader
    \/ AccessHeader

PackedSpec == PackedInit /\ [][PackedNext]_vars

\* ------------------------------------------------------------------------
\* The state machine of a command of any kind, composed in a few steps
\* ------------------------------------------------------------------------

\* the steps a run composes before build
MaxSteps == 4

\* every CommandType
KindInputs == {CommandType[k] : k \in DOMAIN CommandType}

\* the steps the builder b holds
Steps(b) ==
    b.SS + b.SB + b.RB + b.EB + b.RS + b.SH + b.PB
    + (IF b.LEN > 0 THEN 1 ELSE 0) + (IF b.INLINE_BUFFER_LEN > 0 THEN 1 ELSE 0)

KindInit ==
    /\ builder \in {new_builder(ty) : ty \in KindInputs}
    /\ phase = "composing"
    /\ output = NoOutput
    /\ panic = NoPanic

\* a step of a run that holds at most MaxSteps steps
Few(step) ==
    /\ step
    /\ Steps(builder') <= MaxSteps

KindNext ==
    \/ Few(WithSendStatic)
    \/ Few(WithSendBuffer)
    \/ Few(WithRecvBuffer)
    \/ Few(WithExchBuffer)
    \/ Few(WithRecvStatic)
    \/ Few(WithSpecialHeader)
    \/ Few(WithPointerBuffer)
    \/ Few(WithRawData)
    \/ Few(WithInlineBuffer)
    \/ Few(Build)

KindSpec == KindInit /\ [][KindNext]_vars

\* ------------------------------------------------------------------------
\* The state machine of a call of byte_array_write: builder is the caller,
\* [base, raw, input, start], with base the array the caller holds in raw
\* before the call; output is the array the call returned
\* ------------------------------------------------------------------------

\* the longest array and the longest input of a call
MaxBaseLen == 4
MaxInputLen == 2

\* the arrays of at most n bytes of S
BytesUpTo(n, S) == UNION {[1..k -> S] : k \in 0..n}

WriteCalls ==
    {[base |-> base, raw |-> base, input |-> input, start |-> start] :
        base \in BytesUpTo(MaxBaseLen, {0, 255}), input \in BytesUpTo(MaxInputLen, {1, 2}),
        start \in 0..(MaxBaseLen + 1)}

WriteInit ==
    /\ builder \in WriteCalls
    /\ phase = "calling"
    /\ output = <<>>
    /\ panic = NoPanic

\* raw = byte_array_write(raw, input, start);
StoreWrite ==
    /\ phase = "calling"
    /\ LET r == byte_array_write(builder.raw, builder.input, builder.start)
       IN  IF r.ok
           THEN /\ builder' = [builder EXCEPT !.raw = r.val]
                /\ output' = r.val
                /\ phase' = "stored"
                /\ UNCHANGED panic
           ELSE /\ phase' = "panicked"
                /\ panic' = [msg |-> r.msg, at |-> "byte_array_write"]
                /\ UNCHANGED <<builder, output>>

\* byte_array_write(raw, input, start); the array it returns is dropped
DropWrite ==
    /\ phase = "calling"
    /\ LET r == byte_array_write(builder.raw, builder.input, builder.start)
       IN  IF r.ok
           THEN /\ output' = r.val
                /\ phase' = "dropped"
                /\ UNCHANGED <<builder, panic>>
           ELSE /\ phase' = "panicked"
                /\ panic' = [msg |-> r.msg, at |-> "byte_array_write"]
                /\ UNCHANGED <<builder, output>>

WriteNext ==
    \/ StoreWrite
    \/ DropWrite

WriteSpec == WriteInit /\ [][WriteNext]_vars

\* ------------------------------------------------------------------------
\* Properties of the command builder
\* ------------------------------------------------------------------------

\* the byte arrays of a list, one after the other
RECURSIVE Concat(_)
Concat(arrays) == IF arrays = <<>> THEN <<>> ELSE Head(arrays) \o Concat(Tail(arrays))

\* the bytes a special header takes: its word, 8 per process id and 4 per handle
SpecialHeaderBytes(h) == 4 + 8 * Len(h.process_ids) + 4 * Len(h.copy_handles) + 4 * Len(h.move_handles)

\* the total of the size accounting, read off what the builder b holds
AccountingTotal(b) ==
    8 + 8 * Len(b.send_statics)
    + 12 * (Len(b.send_buffers) + Len(b.recv_buffers) + Len(b.exch_buffers))
    + 4 * Len(b.raw_data)
    + (IF Len(b.special_hdrs) > 0 THEN SpecialHeaderBytes(b.special_hdrs[1]) ELSE 0)
    + (IF Len(b.recv_statics) > 0 THEN 8 * Len(b.recv_statics)
       ELSE IF Len(b.inline_buffer) > 0 THEN Len(b.inline_buffer)
       ELSE IF Len(b.pointer_bufs) > 0 THEN 8
       ELSE 0)

\* C1 (TLS cap): in every reachable state the total of the builder is at
\* most 256 bytes, and every array build returns is at most 256 bytes long.
\* The code recomputes the total with consumed_space, which has no cap.
TlsCap ==
    /\ builder.TOTAL <= 256
    /\ phase = "built" => Len(output.raw) <= 256

\* C2 (mutual exclusion): at most one of receive statics, a non-empty inline
\* buffer and a pointer buffer is present in a reachable builder, and each
\* of with_recv_static, with_inline_buffer (non-empty) and
\* with_pointer_buffer panics when one of the other two is present.
MutualExclusion ==
    /\ Cardinality({c \in {"recv_statics", "inline_buffer", "pointer_bufs"} : Len(builder[c]) > 0}) <= 1
    /\ Cardinality({c \in {"RS", "INLINE_BUFFER_LEN", "PB"} : builder[c] > 0}) <= 1
    /\ (builder.INLINE_BUFFER_LEN > 0 \/ builder.PB > 0)
           => \A desc \in RecvStaticInputs : ~with_recv_static(builder, desc).ok
    /\ (builder.RS > 0 \/ builder.PB > 0)
           => \A data \in InlineBufferInputs : Len(data) > 0 => ~with_inline_buffer(builder, data).ok
    /\ (builder.RS > 0 \/ builder.INLINE_BUFFER_LEN > 0)
           => \A desc \in PointerBufferInputs : ~with_pointer_buffer(builder, desc).ok

\* C2: a with_pointer_buffer step was rejected because the builder holds an
\* inline buffer
MutualExclusionRejected ==
    /\ phase = "panicked"
    /\ panic.at = "with_pointer_buffer"
    /\ panic.msg = "Inline buffer found with a setting for a pointer buffer, this combination is illegal"
    /\ builder.INLINE_BUFFER_LEN > 0
    /\ builder.PB = 0

\* the outcome r of a step on a slot that holds count items under the
\* ceiling max: a panic at the ceiling; below it, unless the step is
\* excluded, a builder whose slot holds one item more
SlotStep(r, count, max, slot, array, excluded) ==
    /\ count = max => ~r.ok
    /\ (count < max /\ ~excluded) => r.ok
    /\ r.ok => /\ r.val[slot] = count + 1
               /\ Len(r.val[array]) = count + 1

\* C3 (cardinality ceilings): the slots of a reachable builder hold at most
\* 15 send statics, 15 send buffers, 15 recv buffers, 15 exch buffers, 13
\* recv statics, 1 special header and 1 pointer buffer; the step on a slot
\* at its ceiling panics, and a step below it adds exactly one item.
CardinalityCeilings ==
    /\ builder.SS <= 15 /\ builder.SB <= 15 /\ builder.RB <= 15 /\ builder.EB <= 15
    /\ builder.RS <= 13 /\ builder.SH <= 1 /\ builder.PB <= 1
    /\ \A desc \in SendStaticInputs :
           SlotStep(with_send_static(builder, desc), builder.SS, 15, "SS", "send_statics", FALSE)
    /\ \A desc \in SendBufferInputs :
           SlotStep(with_send_buffer(builder, desc), builder.SB, 15, "SB", "send_buffers", FALSE)
    /\ \A desc \in RecvBufferInputs :
           SlotStep(with_recv_buffer(builder, desc), builder.RB, 15, "RB", "recv_buffers", FALSE)
    /\ \A desc \in ExchBufferInputs :
           SlotStep(with_exch_buffer(builder, desc), builder.EB, 15, "EB", "exch_buffers", FALSE)
    /\ \A desc \in RecvStaticInputs :
           SlotStep(with_recv_static(builder, desc), builder.RS, 13, "RS", "recv_statics",
                    builder.INLINE_BUFFER_LEN > 0 \/ builder.PB > 0)
    /\ \A header \in SpecialHeaderInputs :
           SlotStep(with_special_header(builder, header), builder.SH, 1, "SH", "special_hdrs", FALSE)
    /\ \A desc \in PointerBufferInputs :
           SlotStep(with_pointer_buffer(builder, desc), builder.PB, 1, "PB", "pointer_bufs",
                    builder.INLINE_BUFFER_LEN > 0 \/ builder.RS > 0)

\* C3: a 14th recv static was rejected
CeilingRejected ==
    /\ phase = "panicked"
    /\ panic.at = "with_recv_static"
    /\ panic.msg = "Too many recv statics!"
    /\ builder.RS = 13
    /\ Len(builder.recv_statics) = 13

\* C4 (build is total): no panic comes from build; every panic is the
\* rejection of a composition step.
BuildIsTotal ==
    phase = "panicked" => panic.at /= "build"

\* C5 (size law): the total of a reachable builder is the total of the size
\* accounting for what it holds, 8 for the empty builder, and the array
\* build returns has that length.
SizeLaw ==
    /\ builder.TOTAL = AccountingTotal(builder)
    /\ phase = "built" => Len(output.raw) = AccountingTotal(builder)

\* C5: build returned for a builder with a special header, raw data and
\* recv statics
SizeLawBuilt ==
    /\ phase = "built"
    /\ builder.SH = 1
    /\ builder.LEN = 3
    /\ builder.RS = 5
    /\ Len(output.raw) = 8 + builder.SH_TOTAL + 12 + 40

\* the cursor of build after the raw data, from the sections before it
CursorAfterRawData(b) ==
    8 + (IF Len(b.special_hdrs) > 0 THEN SpecialHeaderBytes(b.special_hdrs[1]) ELSE 0)
    + 8 * Len(b.send_statics)
    + 12 * (Len(b.send_buffers) + Len(b.recv_buffers) + Len(b.exch_buffers))
    + 4 * Len(b.raw_data)

\* the smallest multiple of 16 that is >= x
RoundUp16(x) == ((x + 15) \div 16) * 16

\* C6 (inline buffer alignment): build places a non-empty inline buffer at
\* an offset divisible by 16, the smallest multiple of 16 that is >= the
\* cursor after the raw data.
InlineBufferAligned ==
    (phase = "built" /\ builder.INLINE_BUFFER_LEN > 0)
        => /\ output.at.inline_buffer % 16 = 0
           /\ output.at.inline_buffer = RoundUp16(CursorAfterRawData(builder))

\* C7 (inline buffer content): the array build returns holds the bytes given
\* to with_inline_buffer, in order, from the offset of the inline buffer.
InlineBufferWritten ==
    (phase = "built" /\ builder.INLINE_BUFFER_LEN > 0)
        => /\ output.at.inline_buffer + Len(builder.inline_buffer) <= Len(output.raw)
           /\ SubSeq(output.raw, output.at.inline_buffer + 1, output.at.inline_buffer + Len(builder.inline_buffer))
                  = builder.inline_buffer

\* C8 (padding is part of the output): build of a builder that holds k raw
\* data words and an N byte inline buffer and nothing else returns
\* RoundUp16(8 + 4k) + N bytes, zero between the raw data and the inline
\* buffer, which is the last N bytes (k = 3, N = 16: 40 bytes).
InlineBufferPadded ==
    (/\ phase \in {"built", "panicked"}
     /\ phase = "panicked" => panic.at = "build"
     /\ builder.INLINE_BUFFER_LEN > 0
     /\ builder.SS + builder.SB + builder.RB + builder.EB + builder.RS + builder.SH + builder.PB = 0)
        => /\ phase = "built"
           /\ Len(output.raw) = RoundUp16(8 + 4 * builder.LEN) + builder.INLINE_BUFFER_LEN
           /\ \A i \in (8 + 4 * builder.LEN + 1)..RoundUp16(8 + 4 * builder.LEN) : output.raw[i] = 0
           /\ SubSeq(output.raw, RoundUp16(8 + 4 * builder.LEN) + 1, Len(output.raw)) = builder.inline_buffer

\* C9 (receive mode law): bits [10..14] of word 1 of the header build wrote
\* are recv_statics + 2 with recv statics, else 1 with an inline buffer,
\* else 2 with a pointer buffer, else 0, and the value fits the 4 bits.
ReceiveModeLaw ==
    phase = "built"
        => LET word1 == FromLeBytes(SubSeq(output.raw, 5, 8))
               field == ToNat({i - 10 : i \in {j \in word1 : j >= 10 /\ j < 14}})
               mode == IF Len(builder.recv_statics) > 0 THEN Len(builder.recv_statics) + 2
                       ELSE IF Len(builder.inline_buffer) > 0 THEN 1
                       ELSE IF Len(builder.pointer_bufs) > 0 THEN 2
                       ELSE 0
           IN  /\ mode <= 15
               /\ field = mode

\* C9: build returned for 5 recv statics and the field holds 7
ReceiveModeOfFive ==
    /\ phase = "built"
    /\ builder.RS = 5
    /\ receive_static_mode(<<FromLeBytes(SubSeq(output.raw, 1, 4)), FromLeBytes(SubSeq(output.raw, 5, 8))>>) = 7

\* the bytes of the sections of the command of b other than its header, in
\* the order of the layout; section 7 is the inline buffer
SectionBytes(b) ==
    <<Concat(SubSeq([k \in 1..Len(b.special_hdrs) |-> header_build(b.special_hdrs[k]).val], 1, Len(b.special_hdrs))),
      Concat(AllIntoBytes(b.send_statics)),
      Concat(AllIntoBytes(b.send_buffers)),
      Concat(AllIntoBytes(b.recv_buffers)),
      Concat(AllIntoBytes(b.exch_buffers)),
      Concat(SubSeq([k \in 1..Len(b.raw_data) |-> to_le_bytes(U32, b.raw_data[k])], 1, Len(b.raw_data))),
      b.inline_buffer,
      Concat(AllIntoBytes(b.pointer_bufs)),
      Concat(AllIntoBytes(b.recv_statics))>>

\* the sum of the lengths of the first n of the byte arrays
RECURSIVE SumLen(_, _)
SumLen(arrays, n) == IF n = 0 THEN 0 ELSE Len(arrays[n]) + SumLen(arrays, n - 1)

\* C10 (serialization order): in the array build returns the header is the
\* first 8 bytes and each section that is present, other than the inline
\* buffer, lies at the offset that is 8 plus the lengths of the sections
\* before it in the order special header, send statics, send buffers, recv
\* buffers, exch buffers, raw data, inline buffer, pointer buffer, recv
\* statics, whatever the order of the steps that composed the builder.
SerializationOrder ==
    phase = "built"
        => LET bytes == SectionBytes(builder)
               cursor == <<output.at.special_hdrs, output.at.send_statics, output.at.send_buffers,
                           output.at.recv_buffers, output.at.exch_buffers, output.at.raw_data,
                           output.at.inline_buffer, output.at.pointer_bufs, output.at.recv_statics>>
           IN  \A s \in (1..9) \ {7} :
                   Len(bytes[s]) > 0
                       => /\ cursor[s] = 8 + SumLen(bytes, s - 1)
                          /\ SubSeq(output.raw, 8 + SumLen(bytes, s - 1) + 1, 8 + SumLen(bytes, s)) = bytes[s]

\* C10: build returned for a builder with a special header, send buffers
\* and a pointer buffer
SerializationOrderBuilt ==
    /\ phase = "built"
    /\ builder.SH = 1
    /\ builder.SH_TOTAL = 20
    /\ builder.SB = 2
    /\ builder.PB = 1
    /\ output.at.send_buffers = 28
    /\ output.at.pointer_bufs = 52

\* ------------------------------------------------------------------------
\* Properties of the special header builder
\* ------------------------------------------------------------------------

\* C11 (special header cardinality): a reachable special header holds at
\* most 1 process id, 15 copy handles and 15 move handles; the step on a
\* list at its ceiling panics and the step on a list below its ceiling
\* succeeds, whatever the other two lists hold.
HeaderCardinality ==
    /\ builder.PIDS <= 1 /\ Len(builder.process_ids) <= 1
    /\ builder.CP <= 15 /\ Len(builder.copy_handles) <= 15
    /\ builder.MV <= 15 /\ Len(builder.move_handles) <= 15
    /\ \A process_id \in ProcessIdInputs :
           with_program_id(builder, process_id).ok <=> Len(builder.process_ids) = 0
    /\ \A handle \in CopyHandleInputs :
           with_copy_handle(builder, handle).ok <=> Len(builder.copy_handles) < 15
    /\ \A handle \in MoveHandleInputs :
           with_move_handle(builder, handle).ok <=> Len(builder.move_handles) < 15

\* C11: a 16th copy handle was rejected in a header with a process id and a
\* move handle
HeaderCeilingRejected ==
    /\ phase = "panicked"
    /\ panic.at = "with_copy_handle"
    /\ panic.msg = "Too many copy handles!"
    /\ builder.CP = 15
    /\ builder.PIDS = 1
    /\ builder.MV = 1

\* C12 (special header size): the total of a reachable special header, 4
\* for the new one, and the length of what its build returns are
\* 4 + 8 (with a process id) + 4 per copy handle + 4 per move handle.
HeaderSizeLaw ==
    /\ builder.TOTAL = 4 + (IF Len(builder.process_ids) > 0 THEN 8 ELSE 0)
                         + 4 * Len(builder.copy_handles) + 4 * Len(builder.move_handles)
    /\ phase = "built" => Len(output.raw) = builder.TOTAL

\* C12: build returned 16 bytes for a process id and one copy handle
HeaderSizeSixteen ==
    /\ phase = "built"
    /\ Len(builder.process_ids) = 1
    /\ Len(builder.copy_handles) = 1
    /\ Len(builder.move_handles) = 0
    /\ Len(output.raw) = 16

\* C13 (special header serialization order): a step appends its value to
\* its own list, and build returns the header word (bit 0: a process id is
\* present, bits 1..5: copy handles, bits 5..9: move handles), the process
\* id, the copy handles in the order of their list and then the move
\* handles in the order of theirs, with the cursor ending at the total.
HeaderSerializationOrder ==
    /\ \A handle \in CopyHandleInputs :
           LET r == with_copy_handle(builder, handle)
           IN  r.ok => /\ r.val.copy_handles = Append(builder.copy_handles, handle)
                       /\ r.val.move_handles = builder.move_handles
                       /\ r.val.process_ids = builder.process_ids
    /\ \A handle \in MoveHandleInputs :
           LET r == with_move_handle(builder, handle)
           IN  r.ok => /\ r.val.move_handles = Append(builder.move_handles, handle)
                       /\ r.val.copy_handles = builder.copy_handles
                       /\ r.val.process_ids = builder.process_ids
    /\ \A process_id \in ProcessIdInputs :
           LET r == with_program_id(builder, process_id)
           IN  r.ok => /\ r.val.process_ids = <<process_id>>
                       /\ r.val.copy_handles = builder.copy_handles
                       /\ r.val.move_handles = builder.move_handles
    /\ phase = "built"
           => LET word == Len(builder.process_ids) + 2 * Len(builder.copy_handles) + 32 * Len(builder.move_handles)
                  n == Len(builder.process_ids)
                  c == Len(builder.copy_handles)
                  m == Len(builder.move_handles)
              IN  /\ output.write_index = builder.TOTAL
                  /\ Len(output.raw) = 4 + 8 * n + 4 * c + 4 * m
                  /\ SubSeq(output.raw, 1, 4) = <<word % 256, word \div 256, 0, 0>>
                  /\ n = 1 => FromLeBytes(SubSeq(output.raw, 5, 12)) = builder.process_ids[1]
                  /\ \A i \in 1..c :
                         FromLeBytes(SubSeq(output.raw, 4 + 8 * n + 4 * (i - 1) + 1, 4 + 8 * n + 4 * i))
                             = builder.copy_handles[i]
                  /\ \A i \in 1..m :
                         FromLeBytes(SubSeq(output.raw, 4 + 8 * n + 4 * c + 4 * (i - 1) + 1, 4 + 8 * n + 4 * c + 4 * i))
                             = builder.move_handles[i]

\* C13: build returned for a header with a process id, two different copy
\* handles and a move handle
HeaderSerializedBuilt ==
    /\ phase = "built"
    /\ Len(builder.process_ids) = 1
    /\ Len(builder.copy_handles) = 2
    /\ builder.copy_handles[1] /= builder.copy_handles[2]
    /\ Len(builder.move_handles) = 1
    /\ SubSeq(output.raw, 1, 4) = <<37, 0, 0, 0>>
    /\ output.write_index = 24

\* ------------------------------------------------------------------------
\* Properties of the header of a built command
\* ------------------------------------------------------------------------

\* bits [lsb, msb) of the u32 word w (0 or 1) of the header in the bytes raw
HeaderField(raw, w, lsb, msb) ==
    ToNat({i - lsb : i \in {j \in FromLeBytes(SubSeq(raw, 4 * w + 1, 4 * w + 4)) : j >= lsb /\ j < msb}})

\* C14 (an attached special header is serialized): with_special_header(h)
\* adds the size of h to the total, 4 for the header without a process id
\* or a handle; build writes the word of h at offset 8 and sets bit 31 of
\* header word 1; with no special header the bit is 0 and the section after
\* the header starts at offset 8.
SpecialHeaderSerialized ==
    /\ \A header \in SpecialHeaderInputs :
           LET r == with_special_header(builder, header)
           IN  r.ok => /\ r.val.TOTAL = builder.TOTAL + SpecialHeaderBytes(header)
                       /\ r.val.special_hdrs = <<header>>
    /\ (phase = "built" /\ Len(builder.special_hdrs) = 1)
           => LET h == builder.special_hdrs[1]
                  word == Len(h.process_ids) + 2 * Len(h.copy_handles) + 32 * Len(h.move_handles)
              IN  /\ HeaderField(output.raw, 1, 31, 32) = 1
                  /\ output.at.special_hdrs = 8
                  /\ output.at.send_statics = 8 + SpecialHeaderBytes(h)
                  /\ SubSeq(output.raw, 9, 12) = <<word % 256, word \div 256, 0, 0>>
    /\ (phase = "built" /\ Len(builder.special_hdrs) = 0)
           => /\ HeaderField(output.raw, 1, 31, 32) = 0
              /\ output.at.special_hdrs = 8
              /\ output.at.send_statics = 8

\* C14: build returned 12 bytes for a command with nothing but a special
\* header without a process id or a handle
EmptySpecialHeaderBuilt ==
    /\ phase = "built"
    /\ Len(builder.special_hdrs) = 1
    /\ SpecialHeaderBytes(builder.special_hdrs[1]) = 4
    /\ Len(output.raw) = 12
    /\ SubSeq(output.raw, 5, 12) = <<0, 0, 0, 128, 0, 0, 0, 0>>

\* C15 (header counts are exact): in a built command bits [0..16] of header
\* word 0 are the command kind of the builder, bits [16..20], [20..24],
\* [24..28] and [28..32] the numbers of send statics, send buffers, recv
\* buffers and exch buffers the builder holds and build wrote, each at most
\* 15, and bit 31 of word 1 tells whether a special header is present.
HeaderCountsExact ==
    phase = "built"
        => /\ HeaderField(output.raw, 0, 0, 16) = builder.ty
           /\ builder.ty \in TyInputs
           /\ HeaderField(output.raw, 0, 16, 20) = Len(builder.send_statics)
           /\ HeaderField(output.raw, 0, 20, 24) = Len(builder.send_buffers)
           /\ HeaderField(output.raw, 0, 24, 28) = Len(builder.recv_buffers)
           /\ HeaderField(output.raw, 0, 28, 32) = Len(builder.exch_buffers)
           /\ 8 * HeaderField(output.raw, 0, 16, 20) = output.at.send_buffers - output.at.send_statics
           /\ 12 * HeaderField(output.raw, 0, 20, 24) = output.at.recv_buffers - output.at.send_buffers
           /\ 12 * HeaderField(output.raw, 0, 24, 28) = output.at.exch_buffers - output.at.recv_buffers
           /\ 12 * HeaderField(output.raw, 0, 28, 32) = output.at.raw_data - output.at.exch_buffers
           /\ HeaderField(output.raw, 1, 31, 32) = (IF Len(builder.special_hdrs) > 0 THEN 1 ELSE 0)
           /\ \A slot \in {"send_statics", "send_buffers", "recv_buffers", "exch_buffers"} : Len(builder[slot]) <= 15

\* C15: build returned for a Control command with a send static, 15 send
\* buffers and a special header
HeaderCountsBuilt ==
    /\ phase = "built"
    /\ builder.ty = 5
    /\ Len(builder.send_statics) = 1
    /\ Len(builder.send_buffers) = 15
    /\ Len(builder.special_hdrs) = 1
    /\ SubSeq(output.raw, 1, 4) = <<5, 0, 241, 0>>
    /\ output.raw[8] = 128

\* C17 (receive list offset and reserved bits): in a built command bits
\* [20..31] and bits [14..20] of header word 1 are 0.
OffsetAndReservedZero ==
    phase = "built"
        => /\ HeaderField(output.raw, 1, 20, 31) = 0
           /\ HeaderField(output.raw, 1, 14, 20) = 0

\* C17: build returned for a command with a special header, 3 raw data
\* words and 13 recv statics, the fields around the zero bits full
OffsetZeroBuilt ==
    /\ phase = "built"
    /\ builder.SH = 1
    /\ builder.LEN = 3
    /\ builder.RS = 13
    /\ SubSeq(output.raw, 5, 8) = <<3, 60, 0, 128>>

\* ------------------------------------------------------------------------
\* Properties of the payload steps
\* ------------------------------------------------------------------------

\* C18 (the payload steps replace): from every reachable builder,
\* with_raw_data(d1) and then with_raw_data(d2) give the builder that
\* with_raw_data(d2) alone gives, with LEN the length of d2 and the total
\* changed by the difference of the payloads, and likewise for
\* with_inline_buffer; with_raw_data never panics and with_inline_buffer
\* only for a non-empty buffer beside recv statics or a pointer buffer.
PayloadReplaces ==
    /\ \A d1 \in RawDataInputs, d2 \in RawDataInputs :
           LET r1 == with_raw_data(builder, d1)
               r2 == with_raw_data(builder, d2)
           IN  /\ r1.ok /\ r2.ok
               /\ with_raw_data(r1.val, d2).ok
               /\ with_raw_data(r1.val, d2).val = r2.val
               /\ r2.val.raw_data = d2
               /\ r2.val.LEN = Len(d2)
               /\ r2.val.TOTAL = builder.TOTAL - 4 * Len(builder.raw_data) + 4 * Len(d2)
    /\ \A d1 \in InlineBufferInputs, d2 \in InlineBufferInputs :
           LET r1 == with_inline_buffer(builder, d1)
               r2 == with_inline_buffer(builder, d2)
           IN  /\ r2.ok <=> (Len(d2) = 0 \/ (builder.RS = 0 /\ builder.PB = 0))
               /\ (r1.ok /\ r2.ok)
                      => /\ with_inline_buffer(r1.val, d2).ok
                         /\ with_inline_buffer(r1.val, d2).val = r2.val
                         /\ r2.val.inline_buffer = d2
                         /\ r2.val.INLINE_BUFFER_LEN = Len(d2)
                         /\ r2.val.TOTAL = builder.TOTAL - Len(builder.inline_buffer) + Len(d2)

\* C18: a builder that holds a payload of 3 words and an inline buffer of
\* 16 bytes, to which the payload steps apply again
PayloadsPresent ==
    /\ phase = "composing"
    /\ Len(builder.raw_data) = 3
    /\ Len(builder.inline_buffer) = 16
    /\ builder.TOTAL = 36
    /\ with_raw_data(builder, <<ToBits(1)>>).val.TOTAL = 28

\* ------------------------------------------------------------------------
\* Properties of the descriptor slots and of the payload length
\* ------------------------------------------------------------------------

\* the descriptor of b's array slot number i, as build wrote it: the size
\* bytes from offset first + size * (i - 1) of the output
WrittenAt(first, size, i) == SubSeq(output.raw, first + size * (i - 1) + 1, first + size * i)

\* C16 (the header raw data length is exact): in a built command bits
\* [0..10] of header word 1 are LEN, the number of raw data words build
\* wrote, and LEN is at most 1023.  The code has no ceiling on LEN.
RawDataLengthExact ==
    phase = "built"
        => /\ Len(builder.raw_data) <= 1023
           /\ builder.LEN = Len(builder.raw_data)
           /\ HeaderField(output.raw, 1, 0, 10) = Len(builder.raw_data)
           /\ 4 * HeaderField(output.raw, 1, 0, 10) = output.at.inline_buffer - output.at.raw_data

\* C20 (insertion order within a slot): a step on a descriptor slot appends
\* its descriptor to the array of the slot and leaves the descriptors
\* before it as they were, and the i-th descriptor of each array is the
\* i-th descriptor of its section in what build returns.
InsertionOrder ==
    /\ \A desc \in SendStaticPairs :
           LET r == with_send_static(builder, desc)
           IN  r.ok => r.val.send_statics = Append(builder.send_statics, desc)
    /\ \A desc \in SendBufferPairs :
           LET r == with_send_buffer(builder, desc)
           IN  r.ok => r.val.send_buffers = Append(builder.send_buffers, desc)
    /\ \A desc \in RecvBufferPairs :
           LET r == with_recv_buffer(builder, desc)
           IN  r.ok => r.val.recv_buffers = Append(builder.recv_buffers, desc)
    /\ \A desc \in ExchBufferPairs :
           LET r == with_exch_buffer(builder, desc)
           IN  r.ok => r.val.exch_buffers = Append(builder.exch_buffers, desc)
    /\ \A desc \in RecvStaticPairs :
           LET r == with_recv_static(builder, desc)
           IN  r.ok => r.val.recv_statics = Append(builder.recv_statics, desc)
    /\ phase = "built"
           => LET ss == 8
                  sb == ss + 8 * Len(builder.send_statics)
                  rb == sb + 12 * Len(builder.send_buffers)
                  eb == rb + 12 * Len(builder.recv_buffers)
                  rs == eb + 12 * Len(builder.exch_buffers) + 4 * Len(builder.raw_data)
              IN  /\ \A i \in 1..Len(builder.send_statics) :
                         WrittenAt(ss, 8, i) = IntoBytes(builder.send_statics[i])
                  /\ \A i \in 1..Len(builder.send_buffers) :
                         WrittenAt(sb, 12, i) = IntoBytes(builder.send_buffers[i])
                  /\ \A i \in 1..Len(builder.recv_buffers) :
                         WrittenAt(rb, 12, i) = IntoBytes(builder.recv_buffers[i])
                  /\ \A i \in 1..Len(builder.exch_buffers) :
                         WrittenAt(eb, 12, i) = IntoBytes(builder.exch_buffers[i])
                  /\ \A i \in 1..Len(builder.recv_statics) :
                         WrittenAt(rs, 8, i) = IntoBytes(builder.recv_statics[i])

\* C20: build returned for two different recv statics behind a payload of
\* one word
InsertionOrderBuilt ==
    /\ phase = "built"
    /\ Len(builder.recv_statics) = 2
    /\ builder.recv_statics[1] /= builder.recv_statics[2]
    /\ Len(builder.raw_data) = 1
    /\ WrittenAt(12, 8, 1) = IntoBytes(builder.recv_statics[1])
    /\ WrittenAt(12, 8, 2) = IntoBytes(builder.recv_statics[2])
    /\ WrittenAt(12, 8, 1) /= WrittenAt(12, 8, 2)

\* ------------------------------------------------------------------------
\* Frame of the composition steps
\* ------------------------------------------------------------------------

\* the const generics and fields of the slot of each step
SlotOf ==
    [with_send_static |-> {"SS", "send_statics", "TOTAL"},
     with_send_buffer |-> {"SB", "send_buffers", "TOTAL"},
     with_recv_buffer |-> {"RB", "recv_buffers", "TOTAL"},
     with_exch_buffer |-> {"EB", "exch_buffers", "TOTAL"},
     with_recv_static |-> {"RS", "recv_statics", "TOTAL"},
     with_special_header |-> {"SH", "SH_PIDS", "SH_COPY", "SH_MOVE", "SH_TOTAL", "special_hdrs", "TOTAL"},
     with_pointer_buffer |-> {"PB", "pointer_bufs", "TOTAL"},
     with_raw_data |-> {"LEN", "raw_data", "TOTAL"},
     with_inline_buffer |-> {"INLINE_BUFFER_LEN", "inline_buffer", "TOTAL"}]

\* the step op either is rejected or leaves everything outside its slot,
\* the command kind included, as it was
FrameOf(op) ==
    \/ /\ phase' = "panicked"
       /\ panic'.at = op
    \/ /\ phase' = "composing"
       /\ builder'.ty = builder.ty
       /\ \A f \in (DOMAIN builder) \ SlotOf[op] : builder'[f] = builder[f]

\* C21 (frame of a composition step): each with_* step changes only the
\* generics and fields of its own slot and the total; the command kind and
\* every other slot are carried over, and a rejected step leaves the builder
\* it was applied to as it was, with no output.
CompositionFrame ==
    [][/\ WithSendStatic => FrameOf("with_send_static")
       /\ WithSendBuffer => FrameOf("with_send_buffer")
       /\ WithRecvBuffer => FrameOf("with_recv_buffer")
       /\ WithExchBuffer => FrameOf("with_exch_buffer")
       /\ WithRecvStatic => FrameOf("with_recv_static")
       /\ WithSpecialHeader => FrameOf("with_special_header")
       /\ WithPointerBuffer => FrameOf("with_pointer_buffer")
       /\ WithRawData => FrameOf("with_raw_data")
       /\ WithInlineBuffer => FrameOf("with_inline_buffer")
       /\ DOMAIN builder' = DOMAIN builder
       /\ phase' = "panicked" => (builder' = builder /\ output' = output /\ output = NoOutput)]_vars

\* C21: a 16th send static was rejected on a Control builder that kept the
\* payload and the special header it was given before
CompositionFrameKept ==
    /\ phase = "panicked"
    /\ panic.at = "with_send_static"
    /\ builder.ty = CommandType.Control
    /\ builder.SS = 15
    /\ Len(builder.raw_data) = 3
    /\ builder.SH = 1
    /\ builder.PB = 0

\* ------------------------------------------------------------------------
\* Properties of the packed descriptors
\* ------------------------------------------------------------------------

\* C22 (packed descriptor round trip): the accessors of new(f1, ..., fn)
\* return each fi modulo 2^wi: StaticDescriptor index 6, size 16, address
\* 42; BufferDescriptor address 58, size 36, mode 2; ReceiveListEntry
\* address 48, size 16; SpecialHeader 1, 4, 4; Header 16, 4, 4, 4, 4, 10, 4,
\* 11, 1.
PackedRoundTrip ==
    phase = "accessed"
        => LET a == builder.args
               f == output.fields
           IN  /\ builder.kind = "StaticDescriptor"
                      => f = <<As(a[1], 6), As(a[2], 16), As(a[3], 42)>>
               /\ builder.kind = "BufferDescriptor"
                      => f = <<As(a[1], 58), As(a[2], 36), As(a[3], 2)>>
               /\ builder.kind = "ReceiveListEntry"
                      => f = <<As(a[1], 48), As(a[2], 16)>>
               /\ builder.kind = "SpecialHeader"
                      => f = <<a[1], As(a[2], 4), As(a[3], 4)>>
               /\ builder.kind = "Header"
                      => f = <<As(a[1], 16), As(a[2], 4), As(a[3], 4), As(a[4], 4), As(a[5], 4),
                               As(a[6], 10), ToNat(As(a[7], 4)), As(a[8], 11), a[9]>>

\* C22: the accessors were applied to a BufferDescriptor made of u64::MAX
\* and a size with bit 36 set, and returned 58 bits and the size without
\* that bit
PackedRoundTripTruncated ==
    /\ phase = "accessed"
    /\ builder.kind = "BufferDescriptor"
    /\ builder.args[1] = 0..63
    /\ builder.args[2] = {4, 31, 32, 36}
    /\ output.fields[1] = 0..57
    /\ output.fields[2] = {4, 31, 32}

\* bits [lsb, lsb + len) of v, placed from bit `at`
Field(v, lsb, len, at) == {(b - lsb) + at : b \in {x \in v : x >= lsb /\ x < lsb + len}}

\* C23 (truncation is field-local): every constructor stores of each
\* argument the bits below the width of its field, at the place of the field,
\* and nothing else, so that an argument past its width leaves the other
\* fields as they are; set changes no bit of dst outside
\* [dst_lsb, dst_lsb + len).
TruncationFieldLocal ==
    phase \in {"packed", "accessed"}
        => LET a == builder.args
               words == output.words
           IN  /\ builder.kind = "StaticDescriptor"
                      => words = <<Field(a[1], 0, 6, 0) \cup Field(a[3], 36, 6, 6)
                                       \cup Field(a[3], 32, 4, 12) \cup Field(a[2], 0, 16, 16),
                                   Field(a[3], 0, 32, 0)>>
               /\ builder.kind = "BufferDescriptor"
                      => words = <<Field(a[2], 0, 32, 0),
                                   Field(a[1], 0, 32, 0),
                                   Field(a[3], 0, 2, 0) \cup Field(a[1], 36, 22, 2)
                                       \cup Field(a[2], 32, 4, 24) \cup Field(a[1], 32, 4, 28)>>
               /\ builder.kind = "ReceiveListEntry"
                      => words = <<Field(a[1], 0, 32, 0),
                                   Field(a[1], 32, 16, 0) \cup Field(a[2], 0, 16, 16)>>
               /\ builder.kind = "SpecialHeader"
                      => words = <<(IF a[1] THEN {0} ELSE {}) \cup Field(a[2], 0, 4, 1) \cup Field(a[3], 0, 4, 5)>>
               /\ builder.kind = "Header"
                      => words = <<Field(a[1], 0, 16, 0) \cup Field(a[2], 0, 4, 16) \cup Field(a[3], 0, 4, 20)
                                       \cup Field(a[4], 0, 4, 24) \cup Field(a[5], 0, 4, 28),
                                   Field(a[6], 0, 10, 0) \cup Field(a[7], 0, 4, 10)
                                       \cup Field(a[8], 0, 11, 20) \cup (IF a[9] THEN {31} ELSE {})>>
               /\ builder.kind = "set"
                      => /\ \A b \in (0..(a[1] - 1)) \ (a[5]..(a[5] + a[6] - 1)) : b \in words[1] <=> b \in a[3]
                         /\ \A b \in a[5]..(a[5] + a[6] - 1) : b \in words[1] <=> (b - a[5]) + a[4] \in a[2]
                         /\ words[1] \subseteq 0..(a[1] - 1)

\* C23: Header::new was given 16 send statics and 9 send buffers: bits
\* [16..20] of word 0 hold 0 and bits [20..24] hold 9
TruncatedSendStatics ==
    /\ phase = "packed"
    /\ builder.kind = "Header"
    /\ builder.args[2] = ToBits(16)
    /\ builder.args[3] = ToBits(9)
    /\ Header_num_send_statics(output.words) = {}
    /\ Header_num_send_buffers(output.words) = ToBits(9)

\* ------------------------------------------------------------------------
\* Byte conversion
\* ------------------------------------------------------------------------

\* (v >> 8i) & 0xFF
ByteOf(v, i) == ToNat({b \in 0..7 : (8 * i + b) \in v})

\* raw holds from offset first the integers of items, of n bytes each, one
\* after the other and each with its least significant byte first
LittleEndianAt(raw, first, items, n) ==
    \A j \in 1..Len(items) : \A i \in 0..(n - 1) :
        raw[first + n * (j - 1) + i + 1] = ByteOf(items[j], i)

\* C24 (little-endian conversion): in the array build returns, byte 4j + i
\* of the header and of every descriptor is (word j >> 8i) & 0xFF, a
\* descriptor of n words taking 4n bytes, and the word of the special header,
\* its process ids and handles and every raw data word are written with the
\* least significant byte first.
LittleEndian ==
    phase = "built"
        => /\ LittleEndianAt(output.raw, 0,
                  HeaderNew(ToBits(builder.ty), ToBits(builder.SS), ToBits(builder.SB), ToBits(builder.RB),
                            ToBits(builder.EB), ToBits(builder.LEN),
                            ToBits(get_recv_mode(builder.RS, builder.INLINE_BUFFER_LEN, builder.PB /= 0).val),
                            ToBits(0), builder.SH /= 0), 4)
           /\ \A k \in 1..Len(builder.special_hdrs) :
                  LET h == builder.special_hdrs[k]
                      at == output.at.special_hdrs
                  IN  /\ LittleEndianAt(output.raw, at, SpecialHeaderNew(h.PIDS /= 0, ToBits(h.CP), ToBits(h.MV)), 4)
                      /\ LittleEndianAt(output.raw, at + 4, h.process_ids, 8)
                      /\ LittleEndianAt(output.raw, at + 4 + 8 * h.PIDS, h.copy_handles, 4)
                      /\ LittleEndianAt(output.raw, at + 4 + 8 * h.PIDS + 4 * h.CP, h.move_handles, 4)
           /\ LittleEndianAt(output.raw, output.at.send_statics, Concat(builder.send_statics), 4)
           /\ output.at.send_buffers = output.at.send_statics + 8 * builder.SS
           /\ LittleEndianAt(output.raw, output.at.send_buffers, Concat(builder.send_buffers), 4)
           /\ output.at.recv_buffers = output.at.send_buffers + 12 * builder.SB
           /\ LittleEndianAt(output.raw, output.at.recv_buffers, Concat(builder.recv_buffers), 4)
           /\ output.at.exch_buffers = output.at.recv_buffers + 12 * builder.RB
           /\ LittleEndianAt(output.raw, output.at.exch_buffers, Concat(builder.exch_buffers), 4)
           /\ output.at.raw_data = output.at.exch_buffers + 12 * builder.EB
           /\ LittleEndianAt(output.raw, output.at.raw_data, builder.raw_data, 4)
           /\ LittleEndianAt(output.raw, output.at.pointer_bufs, Concat(builder.pointer_bufs), 4)
           /\ output.at.recv_statics = output.at.pointer_bufs + 8 * builder.PB
           /\ LittleEndianAt(output.raw, output.at.recv_statics, Concat(builder.recv_statics), 4)
           /\ output.write_index = output.at.recv_statics + 8 * builder.RS

\* C24: build returned for a special header whose only handle is
\* 0xFFFF_8001, written as 01 80 FF FF, before the raw data word
\* 0x1234_5678, written as 78 56 34 12
LittleEndianHandle ==
    /\ phase = "built"
    /\ builder.SH = 1
    /\ builder.SH_TOTAL = 8
    /\ builder.LEN = 3
    /\ SubSeq(output.raw, 13, 16) = <<1, 128, 255, 255>>
    /\ SubSeq(output.raw, output.at.raw_data + 5, output.at.raw_data + 8) = <<120, 86, 52, 18>>

\* ------------------------------------------------------------------------
\* The empty command
\* ------------------------------------------------------------------------

\* C25 (empty command): for each of the eight command kinds, build of the
\* builder new_builder returns, without a composition step, 8 bytes: header
\* word 0 is the kind value (4 for Request) and header word 1 is 0.
EmptyCommand ==
    Steps(builder) = 0
        => /\ builder.ty \in 0..7
           /\ builder = new_builder(builder.ty)
           /\ builder.TOTAL = 8
           /\ phase /= "panicked"
           /\ phase = "built"
                  => /\ output.raw = <<builder.ty, 0, 0, 0, 0, 0, 0, 0>>
                     /\ FromLeBytes(SubSeq(output.raw, 1, 4)) = ToBits(builder.ty)
                     /\ FromLeBytes(SubSeq(output.raw, 5, 8)) = {}
                     /\ output.write_index = 8
                     /\ builder.ty = CommandType.Request => FromLeBytes(SubSeq(output.raw, 1, 4)) = {2}

\* C25: build returned for new_builder(CommandType::ControlWithContext)
EmptyCommandBuilt ==
    /\ phase = "built"
    /\ Steps(builder) = 0
    /\ builder.ty = CommandType.ControlWithContext
    /\ output.raw = <<7, 0, 0, 0, 0, 0, 0, 0>>

\* ------------------------------------------------------------------------
\* The pointer buffer
\* ------------------------------------------------------------------------

\* C26 (a pointer buffer is never padded): build of a builder with a pointer
\* buffer, which holds no inline buffer, returns, and the 8 bytes of the
\* receive list entry lie right after the last raw data word, whatever the
\* number of raw data words; with only a pointer buffer the array is 16
\* bytes, the entry at offset 8 and the receive mode 2.
PointerBufferNotPadded ==
    builder.PB > 0
        => /\ builder.INLINE_BUFFER_LEN = 0
           /\ phase = "panicked" => panic.at /= "build"
           /\ phase = "built"
                  => /\ output.at.pointer_bufs = CursorAfterRawData(builder)
                     /\ output.at.pointer_bufs = output.at.raw_data + 4 * Len(builder.raw_data)
                     /\ SubSeq(output.raw, CursorAfterRawData(builder) + 1, CursorAfterRawData(builder) + 8)
                            = IntoBytes(builder.pointer_bufs[1])
                     /\ Len(output.raw) = CursorAfterRawData(builder) + 8
                     /\ HeaderField(output.raw, 1, 10, 14) = 2
                     /\ CursorAfterRawData(builder) = 8
                            => /\ Len(output.raw) = 16
                               /\ output.at.pointer_bufs = 8

\* C26: build returned for a pointer buffer behind three raw data words,
\* with the entry at offset 20
PointerBufferAfterRawData ==
    /\ phase = "built"
    /\ builder.PB = 1
    /\ builder.LEN = 3
    /\ output.at.pointer_bufs = 20
    /\ Len(output.raw) = 28

\* ------------------------------------------------------------------------
\* Steps of different slots
\* ------------------------------------------------------------------------

\* the steps offered to a builder: the number of the slot and the argument
StepInputs ==
    {<<1, desc>> : desc \in SendStaticInputs} \cup {<<2, desc>> : desc \in SendBufferInputs}
    \cup {<<3, desc>> : desc \in RecvBufferInputs} \cup {<<4, desc>> : desc \in ExchBufferInputs}
    \cup {<<5, desc>> : desc \in RecvStaticInputs} \cup {<<6, header>> : header \in SpecialHeaderInputs}
    \cup {<<7, desc>> : desc \in PointerBufferInputs} \cup {<<8, data>> : data \in RawDataInputs}
    \cup {<<9, data>> : data \in InlineBufferInputs}

\* the outcome of the step on the builder b
Apply(step, b) ==
    CASE step[1] = 1 -> with_send_static(b, step[2])
      [] step[1] = 2 -> with_send_buffer(b, step[2])
      [] step[1] = 3 -> with_recv_buffer(b, step[2])
      [] step[1] = 4 -> with_exch_buffer(b, step[2])
      [] step[1] = 5 -> with_recv_static(b, step[2])
      [] step[1] = 6 -> with_special_header(b, step[2])
      [] step[1] = 7 -> with_pointer_buffer(b, step[2])
      [] step[1] = 8 -> with_raw_data(b, step[2])
      [] step[1] = 9 -> with_inline_buffer(b, step[2])

\* C27 (order-independence across slots): two steps of different slots
\* that succeed on a reachable builder in both orders yield the same builder
\* in both orders, generics, fields and total, so that runs that differ in
\* the interleaving of the steps of different slots compose the same
\* builder, of which build returns the same array.
OrderIndependence ==
    phase = "composing"
        => \A s \in StepInputs :
               LET bs == Apply(s, builder)
               IN  bs.ok
                       => \A t \in {u \in StepInputs : u[1] > s[1]} :
                              LET bt == Apply(t, builder)
                                  bst == Apply(t, bs.val)
                                  bts == Apply(s, bt.val)
                              IN  (bt.ok /\ bst.ok /\ bts.ok) => bst.val = bts.val

\* C27: a builder that holds a send static, a pointer buffer and three raw
\* data words, which the runs compose in each of the six orders, was built
OrderIndependenceBuilt ==
    /\ phase = "built"
    /\ builder.SS = 1
    /\ builder.PB = 1
    /\ builder.LEN = 3
    /\ Len(output.raw) = 36
    /\ output.at.pointer_bufs = 28

\* ------------------------------------------------------------------------
\* The empty inline buffer
\* ------------------------------------------------------------------------

\* C28 (an empty inline buffer counts as absent): with_inline_buffer of a
\* 0 byte buffer is accepted by every reachable builder, with recv statics
\* or a pointer buffer too; the builder it returns has the receive mode of
\* a builder without an inline buffer and, where it replaced a non-empty
\* inline buffer, accepts with_recv_static and with_pointer_buffer again.
\* A built command without inline buffer bytes never has receive mode 1.
EmptyInlineBufferAbsent ==
    /\ phase = "composing"
           => LET e == with_inline_buffer(builder, <<>>)
              IN  /\ e.ok
                  /\ e.val.INLINE_BUFFER_LEN = 0
                  /\ e.val.inline_buffer = <<>>
                  /\ e.val.RS = builder.RS /\ e.val.PB = builder.PB
                  /\ get_recv_mode(e.val.RS, e.val.INLINE_BUFFER_LEN, e.val.PB /= 0)
                         = Ok(IF builder.RS > 0 THEN builder.RS + 2 ELSE IF builder.PB > 0 THEN 2 ELSE 0)
                  /\ builder.INLINE_BUFFER_LEN > 0
                         => /\ \A desc \in RecvStaticInputs :
                                   /\ ~with_recv_static(builder, desc).ok
                                   /\ with_recv_static(e.val, desc).ok
                            /\ \A desc \in PointerBufferInputs :
                                   /\ ~with_pointer_buffer(builder, desc).ok
                                   /\ with_pointer_buffer(e.val, desc).ok
    /\ (phase = "built" /\ builder.inline_buffer = <<>>)
           => /\ HeaderField(output.raw, 1, 10, 14) /= 1
              /\ output.at.pointer_bufs = output.at.inline_buffer

\* C28: a builder with 3 recv statics, to which the runs also give an empty
\* inline buffer before and after the recv statics, was built with receive
\* mode 5
EmptyInlineBufferWithRecvStatics ==
    /\ phase = "built"
    /\ builder.RS = 3
    /\ builder.INLINE_BUFFER_LEN = 0
    /\ with_inline_buffer(builder, <<>>) = Ok(builder)
    /\ HeaderField(output.raw, 1, 10, 14) = 5

\* ------------------------------------------------------------------------
\* Coverage of the array
\* ------------------------------------------------------------------------

\* C29 (exact coverage without an inline buffer): build of a builder with
\* INLINE_BUFFER_LEN = 0 returns; its cursor ends at the length of the
\* array, each section starts where the one before it ends, the first
\* right after the 8 bytes of the header and the last ending at the length,
\* and the array is the bytes of the sections one after the other: no gap,
\* no overlap, no byte left or written twice.
ExactCoverage ==
    builder.INLINE_BUFFER_LEN = 0
        => /\ phase = "panicked" => panic.at /= "build"
           /\ phase = "built"
                  => LET bytes == SectionBytes(builder)
                         cursor == <<output.at.special_hdrs, output.at.send_statics, output.at.send_buffers,
                                     output.at.recv_buffers, output.at.exch_buffers, output.at.raw_data,
                                     output.at.inline_buffer, output.at.pointer_bufs, output.at.recv_statics,
                                     output.write_index>>
                     IN  /\ output.write_index = Len(output.raw)
                         /\ cursor[1] = 8
                         /\ \A s \in 1..9 : cursor[s + 1] = cursor[s] + Len(bytes[s])
                         /\ SubSeq(output.raw, 9, Len(output.raw)) = Concat(bytes)
                         /\ Len(output.raw) = builder.TOTAL

\* C29: build returned for a special header of 20 bytes, three raw data
\* words and two recv statics, the cursor ending at 56, the length
ExactCoverageBuilt ==
    /\ phase = "built"
    /\ builder.INLINE_BUFFER_LEN = 0
    /\ builder.SH_TOTAL = 20
    /\ builder.LEN = 3
    /\ builder.RS = 2
    /\ output.write_index = 56
    /\ Len(output.raw) = 56

\* ------------------------------------------------------------------------
\* The special header in a command
\* ------------------------------------------------------------------------

\* command builders without a special header: the empty Request, and a
\* Control with a send buffer, a raw data word and a recv static
HandOffBuilders ==
    {new_builder(CommandType.Request),
     with_recv_static(
         with_raw_data(
             with_send_buffer(new_builder(CommandType.Control), CHOOSE desc \in SendBufferInputs : TRUE).val,
             <<ToBits(1)>>).val,
         CHOOSE desc \in RecvStaticInputs : TRUE).val}

\* the special header h with move handles up to the ceiling
RECURSIVE FillMoveHandles(_)
FillMoveHandles(h) ==
    IF ~with_move_handle(h, ToBits(4660)).ok THEN h
    ELSE FillMoveHandles(with_move_handle(h, ToBits(4660)).val)

\* with_special_header(h) on the command builder c succeeds, takes the
\* counts and the size of h, adds the size to the total, and build writes
\* the given bytes, the array h.build() returns, at [8, 8 + size)
HandOff(c, h, bytes) ==
    LET r == with_special_header(c, h)
        size == SpecialHeaderBytes(h)
        o == build(r.val)
    IN  /\ r.ok
        /\ r.val.SH = 1
        /\ r.val.SH_PIDS = Len(h.process_ids)
        /\ r.val.SH_COPY = Len(h.copy_handles)
        /\ r.val.SH_MOVE = Len(h.move_handles)
        /\ r.val.SH_TOTAL = size
        /\ size >= 4 /\ size <= 132
        /\ Len(bytes) = size
        /\ r.val.TOTAL = c.TOTAL + size
        /\ c.TOTAL = AccountingTotal(c)
        /\ r.val.TOTAL = AccountingTotal(r.val)
        /\ o.ok
        /\ Len(o.val.raw) = c.TOTAL + size
        /\ SubSeq(o.val.raw, 9, 8 + size) = bytes
        /\ o.val.at.send_statics = 8 + size

\* C30 (special header hand-off): with_special_header(h) of a special
\* header h that was built copies the process id, copy and move handle
\* counts and the size of h into the generics of the command, the total
\* after the step is the total before plus the size, which is from 4 to 132
\* bytes and is accounted like the descriptors, and the bytes of the built
\* command at [8, 8 + size) are the array h.build() returned.  The same
\* holds for the header with the ceiling of copy handles and of move
\* handles.
SpecialHeaderHandOff ==
    phase = "built"
        => \A c \in HandOffBuilders :
               /\ HandOff(c, builder, output.raw)
               /\ builder.CP = 15
                      => /\ HandOff(c, FillMoveHandles(builder), header_build(FillMoveHandles(builder)).val)
                         /\ FillMoveHandles(builder).MV = 15

\* C30: build returned 76 bytes for a special header with a process id, 15
\* copy handles and a move handle, which makes a command of 84 bytes, and
\* one of 140 bytes once it holds 15 move handles
SpecialHeaderHandedOff ==
    /\ phase = "built"
    /\ builder.PIDS = 1
    /\ builder.CP = 15
    /\ builder.MV = 1
    /\ Len(output.raw) = 76
    /\ with_special_header(new_builder(CommandType.Request), builder).val.TOTAL = 84
    /\ with_special_header(new_builder(CommandType.Request), FillMoveHandles(builder)).val.TOTAL = 140

\* ------------------------------------------------------------------------
\* byte_array_write
\* ------------------------------------------------------------------------

\* C31 (byte_array_write): the call panics exactly when start + the length
\* of input is more than the length of base; otherwise it returns an array
\* of the length of base whose bytes [start, start + length of input) are
\* input and whose other bytes are those of base.  The array of the
\* caller is the returned one where the caller stores it and is as before
\* the call where the caller drops it.
ByteArrayWriteFrame ==
    LET N == Len(builder.base)
        N2 == Len(builder.input)
    IN  /\ phase = "panicked" => (builder.start + N2 > N /\ builder.raw = builder.base)
        /\ phase \in {"stored", "dropped"}
               => /\ builder.start + N2 <= N
                  /\ Len(output) = N
                  /\ \A i \in 0..(N - 1) :
                         output[i + 1] = IF i >= builder.start /\ i < builder.start + N2
                                         THEN builder.input[(i - builder.start) + 1]
                                         ELSE builder.base[i + 1]
        /\ phase = "stored" => builder.raw = output
        /\ phase = "dropped" => builder.raw = builder.base

\* C31: an input of 2 bytes was written at 2, up to the end of an array of
\* 4 bytes, and the caller dropped the returned array
ByteArrayWriteDropped ==
    /\ phase = "dropped"
    /\ builder.base = <<255, 255, 0, 0>>
    /\ builder.input = <<1, 2>>
    /\ builder.start = 2
    /\ output = <<255, 255, 1, 2>>
    /\ builder.raw = <<255, 255, 0, 0>>
====
